---------------------------- MODULE Spec2Model ----------------------------
(***************************************************************************)
(* Model of the built-in LLM provisioning and supervision engine of        *)
(* aireader (src-tauri/src/builtin_llm.rs, src-tauri/src/lib.rs).          *)
(*                                                                         *)
(* Strings that the code inspects character by character (model ids, file  *)
(* names) are sequences of one-character strings.  An Option<T> is a       *)
(* sequence of length at most one: None is << >>, Some(x) is << x >>.      *)
(***************************************************************************)
EXTENDS Integers, Sequences, FiniteSets, TLC

None == << >>
Some(x) == << x >>
IsSome(o) == Len(o) = 1
Unwrap(o) == o[1]
UnwrapOr(o, d) == IF Len(o) = 1 THEN o[1] ELSE d

MinOf(a, b) == IF a < b THEN a ELSE b
MaxOf(a, b) == IF a < b THEN b ELSE a
Clamp(x, lo, hi) == IF x < lo THEN lo ELSE IF x > hi THEN hi ELSE x

(***************************************************************************)
(* Characters and string helpers (Rust str methods used by the code).      *)
(***************************************************************************)
AsciiAlnum ==
    { "a","b","c","d","e","f","g","h","i","j","k","l","m","n","o","p","q",
      "r","s","t","u","v","w","x","y","z",
      "A","B","C","D","E","F","G","H","I","J","K","L","M","N","O","P","Q",
      "R","S","T","U","V","W","X","Y","Z",
      "0","1","2","3","4","5","6","7","8","9" }

RECURSIVE TrimStartIn(_, _)
TrimStartIn(s, set) ==
    IF Len(s) > 0 /\ s[1] \in set THEN TrimStartIn(Tail(s), set) ELSE s
RECURSIVE TrimEndIn(_, _)
TrimEndIn(s, set) ==
    IF Len(s) > 0 /\ s[Len(s)] \in set
    THEN TrimEndIn(SubSeq(s, 1, Len(s) - 1), set) ELSE s
\* str::trim
Trim(s) ==
    LET Whitespace == { " ", "\t", "\n" }
    IN  TrimEndIn(TrimStartIn(s, Whitespace), Whitespace)
\* str::trim_matches(char)
TrimMatches(s, ch) == TrimEndIn(TrimStartIn(s, {ch}), {ch})
EndsWith(s, suf) ==
    Len(s) >= Len(suf) /\ SubSeq(s, Len(s) - Len(suf) + 1, Len(s)) = suf
\* str::trim_end_matches(&str): strips the suffix repeatedly
RECURSIVE TrimEndMatches(_, _)
TrimEndMatches(s, suf) ==
    IF Len(suf) > 0 /\ EndsWith(s, suf)
    THEN TrimEndMatches(SubSeq(s, 1, Len(s) - Len(suf)), suf) ELSE s
\* Iterator::take(n)
Take(s, n) == SubSeq(s, 1, MinOf(Len(s), n))

(***************************************************************************)
(* Model identities and model file names.                                  *)
(***************************************************************************)
DotGguf == << ".", "g", "g", "u", "f" >>
IdSuffix == << "_", "q", "4", "_", "k", "_", "m" >>
IdPrefix == << "q", "w", "e", "n", "3", "_" >>
FileSuffix == << "-", "Q", "4", "_", "K", "_", "M" >> \o DotGguf
FilePrefix == << "Q", "w", "e", "n", "3", "-" >>

Id0_6b == IdPrefix \o << "0", "_", "6", "b" >> \o IdSuffix
Id1_7b == IdPrefix \o << "1", "_", "7", "b" >> \o IdSuffix
Id4b == IdPrefix \o << "4", "b" >> \o IdSuffix
Id8b == IdPrefix \o << "8", "b" >> \o IdSuffix
Id14b == IdPrefix \o << "1", "4", "b" >> \o IdSuffix
Id32b == IdPrefix \o << "3", "2", "b" >> \o IdSuffix
\* the order of the id list iterated by model_id_from_path
BuiltinIds == << Id0_6b, Id1_7b, Id4b, Id8b, Id14b, Id32b >>

File0_6b == FilePrefix \o << "0", ".", "6", "B" >> \o FileSuffix
File1_7b == FilePrefix \o << "1", ".", "7", "B" >> \o FileSuffix
File4b == FilePrefix \o << "4", "B" >> \o FileSuffix
File8b == FilePrefix \o << "8", "B" >> \o FileSuffix
File14b == FilePrefix \o << "1", "4", "B" >> \o FileSuffix
File32b == FilePrefix \o << "3", "2", "B" >> \o FileSuffix

LegacyId == << "q", "8", "_", "0" >>
LegacyFile ==
    FilePrefix \o << "E", "m", "b", "e", "d", "d", "i", "n", "g", "-",
                     "0", ".", "6", "B", "-", "Q", "8", "_", "0" >> \o DotGguf

DefaultModelId == Id0_6b
IdMaxLen == 80

\* the characters replaced and trimmed, no default when nothing is left
sanitize_model_id_no_default(raw) ==
    LET r == Trim(UnwrapOr(raw, DefaultModelId))
        mapped == [i \in 1..Len(r) |->
                     IF r[i] \in AsciiAlnum \/ r[i] \in {"_", "-", "."}
                     THEN r[i] ELSE "_"]
    IN  Take(TrimMatches(TrimMatches(TrimMatches(mapped, "."), "_"), "-"), IdMaxLen)

sanitize_model_id(raw) ==
    LET r0 == UnwrapOr(raw, DefaultModelId)
        r == Trim(r0)
        mapped == [i \in 1..Len(r) |->
                     IF r[i] \in AsciiAlnum \/ r[i] \in {"_", "-", "."}
                     THEN r[i] ELSE "_"]
        out == TrimMatches(TrimMatches(TrimMatches(mapped, "."), "_"), "-")
    IN  IF Len(r) = 0 THEN DefaultModelId
        ELSE IF Len(out) = 0 THEN DefaultModelId
        ELSE Take(out, IdMaxLen)

is_builtin_qwen3_model_id(model_id) ==
    \E i \in 1..Len(BuiltinIds) : BuiltinIds[i] = model_id

model_file_name(model_id) ==
    IF model_id = Id0_6b THEN File0_6b
    ELSE IF model_id = Id1_7b THEN File1_7b
    ELSE IF model_id = Id4b THEN File4b
    ELSE IF model_id = Id8b THEN File8b
    ELSE IF model_id = Id14b THEN File14b
    ELSE IF model_id = Id32b THEN File32b
    ELSE File0_6b

legacy_model_file_name(model_id) ==
    IF model_id = LegacyId THEN Some(LegacyFile) ELSE None

\* Paths are always models_dir.join(<file name>); the model keeps the file
\* name, models_dir being the same directory throughout (lib.rs stops the
\* server before it changes models_dir).
model_file_path(model_id) ==
    IF is_builtin_qwen3_model_id(model_id) THEN model_file_name(model_id)
    ELSE TrimEndMatches(model_id, DotGguf) \o DotGguf

model_candidate_paths(model_id) ==
    << model_file_path(model_id) >> \o legacy_model_file_name(model_id)

\* Path::file_stem of a single file name
RECURSIVE LastDot(_, _)
LastDot(s, i) == IF i = 0 THEN 0 ELSE IF s[i] = "." THEN i ELSE LastDot(s, i - 1)
file_stem(name) ==
    LET d == LastDot(name, Len(name))
    IN  IF Len(name) = 0 \/ name = << ".", "." >> THEN None
        ELSE IF d <= 1 THEN Some(name)
        ELSE Some(SubSeq(name, 1, d - 1))

RECURSIVE BuiltinIdOfPath(_, _)
BuiltinIdOfPath(path, i) ==
    IF i > Len(BuiltinIds) THEN None
    ELSE IF path = model_file_path(BuiltinIds[i]) THEN Some(BuiltinIds[i])
    ELSE BuiltinIdOfPath(path, i + 1)

model_id_from_path(path) ==
    LET b == BuiltinIdOfPath(path, 1)
        stem == file_stem(path)
    IN  IF IsSome(b) THEN b
        ELSE IF IsSome(stem) THEN
            LET id == sanitize_model_id(Some(Unwrap(stem)))
            IN  IF Len(id) > 0 THEN Some(id) ELSE None
        ELSE None

(***************************************************************************)
(* Normalisation of the loosely typed option strings.                      *)
(***************************************************************************)
normalize_cuda_version(raw) ==
    IF raw = Some("13.1") THEN "13.1" ELSE "12.4"

normalize_compute_mode(raw) ==
    IF raw = Some("gpu") THEN "gpu"
    ELSE IF raw = Some("hybrid") THEN "hybrid"
    ELSE "cpu"

\* a default that is vulkan on every build
normalize_gpu_backend_always_vulkan(raw, macos) ==
    IF raw = Some("cuda") \/ raw = Some("CUDA") THEN "cuda"
    ELSE IF raw = Some("metal") \/ raw = Some("Metal") THEN "metal"
    ELSE "vulkan"

\* macos is the build target (cfg!(target_os = "macos"))
normalize_gpu_backend(raw, macos) ==
    IF raw = Some("cuda") \/ raw = Some("CUDA") THEN "cuda"
    ELSE IF raw = Some("metal") \/ raw = Some("Metal") THEN "metal"
    ELSE IF macos THEN "metal" ELSE "vulkan"

normalize_preferred_compute(raw) ==
    IF raw = Some("cpu") THEN Some("cpu")
    ELSE IF raw = Some("gpu") THEN Some("gpu")
    ELSE IF raw = Some("hybrid") THEN Some("hybrid")
    ELSE None

UpperLetters == << "A","B","C","D","E","F","G","H","I","J","K","L","M",
                   "N","O","P","Q","R","S","T","U","V","W","X","Y","Z" >>
LowerLetters == << "a","b","c","d","e","f","g","h","i","j","k","l","m",
                   "n","o","p","q","r","s","t","u","v","w","x","y","z" >>
ToAsciiLower(ch) ==
    IF \E i \in 1..Len(UpperLetters) : UpperLetters[i] = ch
    THEN LowerLetters[CHOOSE i \in 1..Len(UpperLetters) : UpperLetters[i] = ch]
    ELSE ch
EqIgnoreAsciiCase(a, b) ==
    /\ Len(a) = Len(b)
    /\ \A i \in 1..Len(a) : ToAsciiLower(a[i]) = ToAsciiLower(b[i])

TierMax == 5

parse_preferred_tier(raw) ==
    IF raw = None THEN None
    ELSE LET r == Trim(Unwrap(raw))
             TierDigits == << "0", "1", "2", "3", "4", "5" >>
         IN  IF EqIgnoreAsciiCase(r, << "a", "u", "t", "o" >>) \/ Len(r) = 0
             THEN None
             ELSE IF Len(r) = 1 /\ \E d \in 1..Len(TierDigits) : TierDigits[d] = r[1]
             THEN Some((CHOOSE d \in 1..Len(TierDigits) : TierDigits[d] = r[1]) - 1)
             ELSE None

(***************************************************************************)
(* Tier selection.  VRAM is kept in MiB (nvidia-smi reports MiB), so       *)
(* vram_bytes / 1024 / 1024 / 1024 is vram \div 1024.                      *)
(***************************************************************************)
MibPerGib == 1024
VramGb(vram) == UnwrapOr(vram, 0) \div MibPerGib

\* a VRAM ladder that gives tier 3 from 8 GB
VramLadder_three_at_eight(gb) ==
    IF gb < 4 THEN 0 ELSE IF gb < 6 THEN 1 ELSE IF gb < 8 THEN 2
    ELSE IF gb < 12 THEN 3 ELSE IF gb < 24 THEN 4 ELSE 5

VramLadder(gb) ==
    IF gb < 4 THEN 0 ELSE IF gb < 6 THEN 1 ELSE IF gb < 10 THEN 2
    ELSE IF gb < 12 THEN 3 ELSE IF gb < 24 THEN 4 ELSE 5

cap_tier_by_vram(tier, vram) ==
    IF IsSome(vram) /\ Unwrap(vram) > 0
    THEN Clamp(MinOf(tier, VramLadder(Unwrap(vram) \div MibPerGib)), 0, TierMax)
    ELSE tier

AllLayers == 999
clamp_gpu_layers_by_vram(layers0, vram) ==
    LET layers == IF layers0 < 0 THEN 0 ELSE layers0
        gb == Unwrap(vram) \div MibPerGib
        max_layers == IF gb < 4 THEN 0 ELSE IF gb < 6 THEN 8
                      ELSE IF gb < 8 THEN 16 ELSE AllLayers
    IN  IF IsSome(vram) /\ Unwrap(vram) > 0 THEN MinOf(layers, max_layers)
        ELSE layers

cpu_performance_tier(cpu_cores) ==
    IF cpu_cores >= 24 THEN 3 ELSE IF cpu_cores >= 20 THEN 2
    ELSE IF cpu_cores >= 8 THEN 1 ELSE 0

\* a RAM ladder whose first step is at 6 GB
RamLadder_from_six(total_mem_gb) ==
    IF total_mem_gb < 6 THEN 0 ELSE IF total_mem_gb < 12 THEN 1
    ELSE IF total_mem_gb < 20 THEN 2 ELSE IF total_mem_gb < 32 THEN 3
    ELSE IF total_mem_gb < 48 THEN 4 ELSE 5

RamLadder(total_mem_gb) ==
    IF total_mem_gb < 8 THEN 0 ELSE IF total_mem_gb < 12 THEN 1
    ELSE IF total_mem_gb < 20 THEN 2 ELSE IF total_mem_gb < 32 THEN 3
    ELSE IF total_mem_gb < 48 THEN 4 ELSE 5

tier_from_resources(total_mem_gb, vram, compute_mode, cpu_cores) ==
    LET ram_tier == RamLadder(total_mem_gb)
        cpu_tier == cpu_performance_tier(cpu_cores)
        vram_tier == VramLadder(VramGb(vram))
    IN  IF compute_mode = "cpu" THEN MinOf(ram_tier, cpu_tier)
        ELSE IF compute_mode = "gpu" THEN MinOf(ram_tier, vram_tier)
        ELSE MinOf(ram_tier, cpu_tier)

tier_to_model_id(tier) ==
    IF tier = 5 THEN Id32b ELSE IF tier = 4 THEN Id14b
    ELSE IF tier = 3 THEN Id8b ELSE IF tier = 2 THEN Id4b
    ELSE IF tier = 1 THEN Id1_7b ELSE Id0_6b

\* gpu_name is kept as the set of the name fragments the code looks for in
\* the lower-cased name: "intel", "uhd", " hd ", "iris", "idddriver",
\* "virtual", "remote".
is_gpu_worth_using(gpu_name, vram, is_apple_silicon) ==
    IF is_apple_silicon THEN TRUE
    ELSE IF VramGb(vram) < 2 THEN FALSE
    ELSE IF IsSome(gpu_name)
            /\ \/ /\ "intel" \in Unwrap(gpu_name)
                  /\ Unwrap(gpu_name) \cap {"uhd", " hd ", "iris"} # {}
               \/ Unwrap(gpu_name) \cap {"idddriver", "virtual", "remote"} # {}
         THEN FALSE
    ELSE TRUE

\* builtin_llm_auto_start: the candidate list
ComputeCandidates(probe, preferred_compute) ==
    LET gpu_useful ==
            is_gpu_worth_using(probe.gpu_name, probe.vram, probe.is_apple_silicon)
    IN  IF IsSome(preferred_compute) THEN
            LET pc0 == Unwrap(preferred_compute)
                backend ==
                    IF pc0 \in {"gpu", "hybrid"} /\ probe.has_cuda THEN "cuda"
                    ELSE IF pc0 \in {"gpu", "hybrid"} /\ probe.has_metal THEN "metal"
                    ELSE normalize_gpu_backend(None, probe.macos)
            IN  << << pc0, backend >> >>
        ELSE
            (IF probe.has_metal /\ gpu_useful THEN << << "gpu", "metal" >> >> ELSE << >>)
            \o (IF probe.has_cuda /\ gpu_useful THEN << << "gpu", "cuda" >> >> ELSE << >>)
            \o (IF probe.has_vulkan /\ gpu_useful THEN << << "hybrid", "vulkan" >> >> ELSE << >>)
            \o << << "cpu", "none" >> >>

\* a start tier that the VRAM does not cap
StartTier_uncapped(probe, preferred_tier, compute_mode) ==
    Clamp(IF IsSome(preferred_tier) THEN Unwrap(preferred_tier)
          ELSE tier_from_resources(probe.total_mem_gb, probe.vram,
                                   compute_mode, probe.cpu_cores),
          0, TierMax)

\* builtin_llm_auto_start: the tier the loop of one candidate starts from
StartTier(probe, preferred_tier, compute_mode) ==
    LET tier == Clamp(IF IsSome(preferred_tier) THEN Unwrap(preferred_tier)
                      ELSE tier_from_resources(probe.total_mem_gb, probe.vram,
                                               compute_mode, probe.cpu_cores),
                      0, TierMax)
    IN  IF compute_mode \in {"gpu", "hybrid"} THEN cap_tier_by_vram(tier, probe.vram)
        ELSE tier

DefaultGpuLayers == 20

\* the BuiltinLlmOptions auto_start builds for one (candidate, tier) pair
AutoStartOptions(probe, aopts, compute_mode, gpu_backend, t) ==
    LET requested == MaxOf(UnwrapOr(aopts.gpu_layers, DefaultGpuLayers), 0)
    IN  [ model_id |-> Some(tier_to_model_id(t)),
          mode |-> IF UnwrapOr(aopts.allow_download, TRUE)
                   THEN Some("auto") ELSE Some("bundled_only"),
          compute_mode |-> Some(compute_mode),
          gpu_backend |-> Some(gpu_backend),
          gpu_layers |-> Some(IF compute_mode \in {"gpu", "hybrid"}
                              THEN clamp_gpu_layers_by_vram(requested, probe.vram)
                              ELSE 0),
          cuda_version |-> Some(normalize_cuda_version(aopts.cuda_version)) ]

\* ensure_running_impl: the request after normalisation
Request(opts, macos) ==
    [ model_id |-> sanitize_model_id(opts.model_id),
      allow_download |-> opts.mode # Some("bundled_only"),
      compute_mode |-> normalize_compute_mode(opts.compute_mode),
      gpu_backend |-> normalize_gpu_backend(opts.gpu_backend, macos),
      cuda_version |-> normalize_cuda_version(opts.cuda_version),
      gpu_layers |-> MaxOf(UnwrapOr(opts.gpu_layers, DefaultGpuLayers), 0) ]

(***************************************************************************)
(* Bounds of the model.                                                    *)
(***************************************************************************)
NumThreads == 2
NumPorts == 2
MaxSpawns == 2
MaxCommands == 2
NumMirrors == 2
MaxUrls == 2
MaxChunks == 2

Threads == 1..NumThreads
Ports == 1..NumPorts
Pids == 1..MaxSpawns
\* a mirror URL is a number; 0 stands for the empty string
Urls == 0..NumMirrors
\* the commands that can be downloading at the same time
Callers == {1, 2}

(***************************************************************************)
(* State.                                                                  *)
(*  mgr      the BuiltinLlmManager: seven fields, each behind its own Mutex*)
(*  alive    the server processes spawned by the supervisor still running  *)
(*  procPort the --port argument each spawned process was launched with    *)
(*  listener per port, the spawned process listening on it                 *)
(*  foreign  the ports some unrelated process listens on                   *)
(*  hw       the machine: what builtin_llm_probe_system reports            *)
(*  ephemeral  the ports the OS hands out for a bind to port 0             *)
(*  th       per command thread: program counter and locals                *)
(*  started  the number of start and stop commands invoked so far          *)
(*  dl       per caller, download_to_file under way: program counter and   *)
(*           locals                                                        *)
(*  part     the .part file next to the destination, if there is one       *)
(*  dest     the destination file of the download, if there is one         *)
(*  rt       the files in the runtime directory                            *)
(***************************************************************************)
VARIABLES mgr, alive, procPort, listener, nextPid, foreign, foreignKilled,
          hw, ephemeral, th, started, lastOk, destroyed, download_cancel,
          dl, part, dest, rt

vars == << mgr, alive, procPort, listener, nextPid, foreign, foreignKilled,
           hw, ephemeral, th, started, lastOk, destroyed, download_cancel,
           dl, part, dest, rt >>

\* BuiltinLlmManager::new
NewManager ==
    [ child |-> None, port |-> None, model_path |-> None,
      compute_mode |-> None, gpu_backend |-> None, gpu_layers |-> None,
      cuda_version |-> None ]

NoReads ==
    [ path |-> None, compute |-> None, backend |-> None, layers |-> None,
      cuda |-> None ]

IdleThread ==
    [ pc |-> "idle", kind |-> "none", opts |-> None, ret |-> "none",
      cur |-> NoReads, ptc |-> None, nport |-> None, nchild |-> None,
      model |-> None, spath |-> None, seen |-> None, reuse |-> None,
      didStop |-> FALSE, didSpawn |-> FALSE, auto |-> None, att |-> << >>,
      res |-> None, prev |-> None ]

OkResult(running, path, port) ==
    [ ok |-> TRUE, err |-> "", running |-> running,
      running_model_id |-> IF IsSome(path) THEN model_id_from_path(Unwrap(path))
                           ELSE None,
      port |-> port ]
ErrResult(msg) ==
    [ ok |-> FALSE, err |-> msg, running |-> FALSE, running_model_id |-> None,
      port |-> None ]

StartFailed == "llama-server failed to start"
AutoStartFailed == "auto start failed after trying fallbacks"

Req(t) == Request(Unwrap(th[t].opts), hw.macos)

\* BuiltinLlmManager::is_running: the value returned, and the child field
\* afterwards (an exited child is reaped and its handle dropped)
IsRunningValue(m, al) == IsSome(m.child) /\ Unwrap(m.child) \in al
IsRunningChild(m, al) ==
    IF IsSome(m.child) /\ Unwrap(m.child) \notin al THEN None ELSE m.child

\* the process (own or foreign) listening on a port
PortOpen(p) == IsSome(listener[p]) \/ p \in foreign

\* a process ends: it stops listening
Unlisten(pid) ==
    [p \in Ports |-> IF listener[p] = Some(pid) THEN None ELSE listener[p]]

\* what a command leaves behind when its body is over: an ensure_running_impl
\* called by auto_start returns into the loop of auto_start
Finished(t, r) ==
    [th[t] EXCEPT !.pc = IF th[t].kind = "auto" THEN "as_match" ELSE "done",
                  !.res = Some(r), !.ret = "none", !.cur = NoReads,
                  !.ptc = None, !.nport = None, !.nchild = None,
                  !.model = None, !.spath = None]

OsUnchanged == UNCHANGED << alive, procPort, listener, nextPid, foreign, foreignKilled >>
AppUnchanged == UNCHANGED << hw, ephemeral, lastOk, destroyed, dl, part, dest, rt >>
StepUnchanged == AppUnchanged /\ UNCHANGED started

(***************************************************************************)
(* Commands.                                                               *)
(***************************************************************************)
\* the window invokes the commands: it invokes none once it is destroyed
WindowOpen == ~destroyed /\ \A u \in Threads : th[u].kind # "destroy"

\* #[tauri::command] builtin_llm_ensure_running
BeginEnsureRunning(t, o) ==
    /\ th[t].pc = "idle" /\ WindowOpen /\ started < MaxCommands
    /\ started' = started + 1
    /\ th' = [th EXCEPT ![t] = [IdleThread EXCEPT !.pc = "er_is_running",
                                   !.kind = "ensure", !.opts = Some(o),
                                   !.prev = lastOk]]
    /\ UNCHANGED << mgr, download_cancel >> /\ OsUnchanged /\ AppUnchanged

\* #[tauri::command] builtin_llm_stop: stop(), then status_from_options
BeginStop(t) ==
    /\ th[t].pc = "idle" /\ WindowOpen /\ started < MaxCommands
    /\ started' = started + 1
    /\ th' = [th EXCEPT ![t] = [IdleThread EXCEPT !.pc = "stop_rd_port",
                                   !.kind = "stop", !.ret = "st_is_running"]]
    /\ UNCHANGED << mgr, download_cancel >> /\ OsUnchanged /\ AppUnchanged

\* #[tauri::command] builtin_llm_status
BeginStatus(t) ==
    /\ th[t].pc = "idle" /\ WindowOpen
    /\ UNCHANGED started
    /\ th' = [th EXCEPT ![t] = [IdleThread EXCEPT !.pc = "st_is_running",
                                   !.kind = "status"]]
    /\ UNCHANGED << mgr, download_cancel >> /\ OsUnchanged /\ AppUnchanged

\* on_window_event(Destroyed): stop(); the commands issued before have returned
BeginDestroy(t) ==
    /\ ~destroyed /\ \A u \in Threads : th[u].pc = "idle"
    /\ UNCHANGED started
    /\ th' = [th EXCEPT ![t] = [IdleThread EXCEPT !.pc = "stop_rd_port",
                                   !.kind = "destroy", !.ret = "done"]]
    /\ UNCHANGED << mgr, download_cancel >> /\ OsUnchanged /\ AppUnchanged

\* #[tauri::command] builtin_llm_auto_start, up to the candidate loop
BeginAutoStart(t, a) ==
    /\ th[t].pc = "idle" /\ WindowOpen /\ started < MaxCommands
    /\ started' = started + 1
    /\ th' = [th EXCEPT ![t] =
                [IdleThread EXCEPT !.pc = "as_candidate", !.kind = "auto",
                    !.auto = Some([ aopts |-> a,
                                    cands |-> ComputeCandidates(hw,
                                        normalize_preferred_compute(a.preferred_compute)),
                                    ci |-> 1, t |-> 0 ])]]
    /\ UNCHANGED << mgr, download_cancel >> /\ OsUnchanged /\ AppUnchanged

\* the command returns to the caller
Return(t) ==
    /\ th[t].pc = "done"
    /\ th' = [th EXCEPT ![t] = IdleThread]
    /\ lastOk' = IF th[t].kind = "status" THEN lastOk
                 ELSE IF /\ th[t].kind = "ensure" /\ Unwrap(th[t].res).ok
                         /\ \A u \in Threads \ {t} : th[u].pc = "idle"
                 THEN Some([ opts |-> Unwrap(th[t].opts), child |-> mgr.child,
                             port |-> Unwrap(th[t].res).port ])
                 ELSE None
    /\ destroyed' = (destroyed \/ th[t].kind = "destroy")
    /\ UNCHANGED << mgr, hw, ephemeral, started, download_cancel, dl, part, dest, rt >>
    /\ OsUnchanged

(***************************************************************************)
(* builtin_llm_auto_start: the loops over candidates and tiers.            *)
(***************************************************************************)
\* for (compute_mode, gpu_backend) in compute_candidates { let mut t = ... }
AsCandidate(t) ==
    /\ th[t].pc = "as_candidate"
    /\ LET a == Unwrap(th[t].auto) IN
       IF a.ci > Len(a.cands)
       THEN th' = [th EXCEPT ![t] = [@ EXCEPT !.pc = "done", !.opts = None,
                                        !.res = Some(ErrResult(AutoStartFailed))]]
       ELSE th' = [th EXCEPT ![t] = [@ EXCEPT !.pc = "as_while",
                      !.auto = Some([a EXCEPT !.t =
                          StartTier(hw, parse_preferred_tier(a.aopts.preferred_tier),
                                    a.cands[a.ci][1])])]]
    /\ UNCHANGED << mgr, download_cancel >> /\ OsUnchanged /\ StepUnchanged

\* a tier loop that ends above tier 0
WhileCondition_above_zero(tier) == tier > 0

WhileCondition(tier) == tier >= 0

\* while t >= 0 { ... ensure_running_impl(opts) ... }
AsWhile(t) ==
    /\ th[t].pc = "as_while"
    /\ LET a == Unwrap(th[t].auto) IN
       IF WhileCondition(a.t)
       THEN th' = [th EXCEPT ![t] = [@ EXCEPT !.pc = "er_is_running",
                      !.opts = Some(AutoStartOptions(hw, a.aopts, a.cands[a.ci][1],
                                                     a.cands[a.ci][2], a.t)),
                      !.att = Append(@, [ mode |-> a.cands[a.ci][1],
                                          backend |-> a.cands[a.ci][2],
                                          tier |-> a.t, ok |-> FALSE,
                                          cancelled |-> FALSE ]),
                      !.seen = None, !.reuse = None,
                      !.didStop = FALSE, !.didSpawn = FALSE, !.res = None]]
       ELSE th' = [th EXCEPT ![t] = [@ EXCEPT !.pc = "as_candidate",
                      !.auto = Some([a EXCEPT !.ci = @ + 1])]]
    /\ UNCHANGED << mgr, download_cancel >> /\ OsUnchanged /\ StepUnchanged

\* match ensure_running_impl(..).await { Ok(status) => return .., Err(_) => t -= 1 }
AsMatch(t) ==
    /\ th[t].pc = "as_match"
    /\ LET a == Unwrap(th[t].auto) IN
       IF Unwrap(th[t].res).ok
       THEN th' = [th EXCEPT ![t] = [@ EXCEPT !.pc = "done",
                      !.att = [@ EXCEPT ![Len(@)].ok = TRUE]]]
       ELSE th' = [th EXCEPT ![t] = [@ EXCEPT !.pc = "as_while",
                      !.att = [@ EXCEPT ![Len(@)].cancelled =
                                  (Unwrap(th[t].res).err = "cancelled")],
                      !.auto = Some([a EXCEPT !.t = @ - 1])]]
    /\ UNCHANGED << mgr, download_cancel >> /\ OsUnchanged /\ StepUnchanged

(***************************************************************************)
(* ensure_running_impl.                                                    *)
(***************************************************************************)
\* if state.builtin_llm.is_running() {
ErIsRunning(t) ==
    /\ th[t].pc = "er_is_running"
    /\ mgr' = [mgr EXCEPT !.child = IsRunningChild(mgr, alive)]
    /\ th' = [th EXCEPT ![t] =
                IF IsRunningValue(mgr, alive)
                THEN [@ EXCEPT !.pc = "er_rd_path", !.seen = mgr.child]
                ELSE [@ EXCEPT !.pc = "er_acquire"]]
    /\ UNCHANGED download_cancel /\ OsUnchanged /\ StepUnchanged

ErReadPath(t) ==
    /\ th[t].pc = "er_rd_path"
    /\ th' = [th EXCEPT ![t] = [@ EXCEPT !.pc = "er_rd_compute",
                                   !.cur.path = mgr.model_path]]
    /\ UNCHANGED << mgr, download_cancel >> /\ OsUnchanged /\ StepUnchanged

ErReadCompute(t) ==
    /\ th[t].pc = "er_rd_compute"
    /\ th' = [th EXCEPT ![t] = [@ EXCEPT !.pc = "er_rd_backend",
                                   !.cur.compute = mgr.compute_mode]]
    /\ UNCHANGED << mgr, download_cancel >> /\ OsUnchanged /\ StepUnchanged

ErReadBackend(t) ==
    /\ th[t].pc = "er_rd_backend"
    /\ th' = [th EXCEPT ![t] = [@ EXCEPT !.pc = "er_rd_layers",
                                   !.cur.backend = mgr.gpu_backend]]
    /\ UNCHANGED << mgr, download_cancel >> /\ OsUnchanged /\ StepUnchanged

ErReadLayers(t) ==
    /\ th[t].pc = "er_rd_layers"
    /\ th' = [th EXCEPT ![t] = [@ EXCEPT !.pc = "er_rd_cuda",
                                   !.cur.layers = mgr.gpu_layers]]
    /\ UNCHANGED << mgr, download_cancel >> /\ OsUnchanged /\ StepUnchanged

ErReadCuda(t) ==
    /\ th[t].pc = "er_rd_cuda"
    /\ th' = [th EXCEPT ![t] = [@ EXCEPT !.pc = "er_compare",
                                   !.cur.cuda = mgr.cuda_version]]
    /\ UNCHANGED << mgr, download_cancel >> /\ OsUnchanged /\ StepUnchanged

\* a comparison of the layer count whatever the requested mode
same_layers_any_mode(req, cur) == UnwrapOr(cur.layers, 0) = req.gpu_layers

same_layers(req, cur) ==
    req.compute_mode # "hybrid" \/ UnwrapOr(cur.layers, 0) = req.gpu_layers
same_cuda(req, cur) ==
    req.gpu_backend # "cuda" \/ UnwrapOr(cur.cuda, "12.4") = req.cuda_version

\* the condition of the reuse return
SameConfig(req, cur) ==
    LET current_id == IF IsSome(cur.path) THEN model_id_from_path(Unwrap(cur.path))
                      ELSE None
        same_compute == UnwrapOr(cur.compute, "cpu") = req.compute_mode
        same_backend == UnwrapOr(cur.backend, "vulkan") = req.gpu_backend
    IN  /\ current_id = Some(req.model_id)
        /\ same_compute /\ same_backend
        /\ same_layers(req, cur) /\ same_cuda(req, cur)

ErCompare(t) ==
    /\ th[t].pc = "er_compare"
    /\ th' = [th EXCEPT ![t] = [@ EXCEPT !.pc = "er_decided",
                                   !.reuse = Some(SameConfig(Req(t), th[t].cur))]]
    /\ UNCHANGED << mgr, download_cancel >> /\ OsUnchanged /\ StepUnchanged

\* a decision that goes on to the acquisition without stop()
ErDecided_without_stop(t) ==
    /\ th[t].pc = "er_decided"
    /\ th' = [th EXCEPT ![t] =
                IF Unwrap(th[t].reuse)
                THEN [@ EXCEPT !.pc = "st_is_running", !.cur = NoReads]
                ELSE [@ EXCEPT !.pc = "er_acquire", !.cur = NoReads]]
    /\ UNCHANGED << mgr, download_cancel >> /\ OsUnchanged /\ StepUnchanged

\* return Ok(status_from_options(..)), or state.builtin_llm.stop()
ErDecided(t) ==
    /\ th[t].pc = "er_decided"
    /\ th' = [th EXCEPT ![t] =
                IF Unwrap(th[t].reuse)
                THEN [@ EXCEPT !.pc = "st_is_running", !.cur = NoReads]
                ELSE [@ EXCEPT !.pc = "stop_rd_port", !.ret = "er_acquire",
                               !.cur = NoReads]]
    /\ UNCHANGED << mgr, download_cancel >> /\ OsUnchanged /\ StepUnchanged

\* download_cancel.store(false); ensure_runtime_with_mode(..).await?;
\* ensure_model_with_mode(..).await?  The file system and the network decide
\* whether both artifacts are obtained and which candidate path the model has.
ErAcquire(t) ==
    /\ th[t].pc = "er_acquire"
    /\ download_cancel' = FALSE
    /\ \/ th' = [th EXCEPT ![t] = Finished(t, ErrResult("acquire failed"))]
       \/ \E i \in 1..Len(model_candidate_paths(Req(t).model_id)) :
            th' = [th EXCEPT ![t] = [@ EXCEPT !.pc = "er_pick_port",
                      !.model = Some(model_candidate_paths(Req(t).model_id)[i])]]
    /\ UNCHANGED mgr /\ OsUnchanged /\ StepUnchanged

\* pick_free_port: bind 127.0.0.1:0, read the port, drop the listener
ErPickPort(t) ==
    /\ th[t].pc = "er_pick_port"
    /\ IF \E p \in ephemeral : ~PortOpen(p)
       THEN \E p \in ephemeral :
              /\ ~PortOpen(p)
              /\ th' = [th EXCEPT ![t] = [@ EXCEPT !.pc = "er_spawn",
                                             !.nport = Some(p)]]
       ELSE th' = [th EXCEPT ![t] = Finished(t, ErrResult("no free port"))]
    /\ UNCHANGED << mgr, download_cancel >> /\ OsUnchanged /\ StepUnchanged

\* let child = cmd.spawn().map_err(..)?
ErSpawn(t) ==
    /\ th[t].pc = "er_spawn"
    /\ \/ /\ nextPid <= MaxSpawns
          /\ alive' = alive \cup {nextPid}
          /\ procPort' = [procPort EXCEPT ![nextPid] = th[t].nport]
          /\ nextPid' = nextPid + 1
          /\ th' = [th EXCEPT ![t] = [@ EXCEPT !.pc = "er_set_child",
                                         !.nchild = Some(nextPid),
                                         !.didSpawn = TRUE]]
       \/ /\ th' = [th EXCEPT ![t] = Finished(t, ErrResult("spawn failed"))]
          /\ UNCHANGED << alive, procPort, nextPid >>
    /\ UNCHANGED << mgr, download_cancel, listener, foreign, foreignKilled >>
    /\ StepUnchanged

\* set_running: seven assignments, each under its own lock
SetField(t, from, to, m) ==
    /\ th[t].pc = from
    /\ mgr' = m
    /\ th' = [th EXCEPT ![t] = [@ EXCEPT !.pc = to]]
    /\ UNCHANGED download_cancel /\ OsUnchanged /\ StepUnchanged

ErSetChild(t) ==
    SetField(t, "er_set_child", "er_set_port", [mgr EXCEPT !.child = th[t].nchild])
ErSetPort(t) ==
    SetField(t, "er_set_port", "er_set_path", [mgr EXCEPT !.port = th[t].nport])
ErSetPath(t) ==
    SetField(t, "er_set_path", "er_set_compute", [mgr EXCEPT !.model_path = th[t].model])
ErSetCompute(t) ==
    SetField(t, "er_set_compute", "er_set_backend",
             [mgr EXCEPT !.compute_mode = Some(Req(t).compute_mode)])
ErSetBackend(t) ==
    SetField(t, "er_set_backend", "er_set_layers",
             [mgr EXCEPT !.gpu_backend = Some(Req(t).gpu_backend)])
ErSetLayers(t) ==
    SetField(t, "er_set_layers", "er_set_cuda",
             [mgr EXCEPT !.gpu_layers = Some(Req(t).gpu_layers)])
ErSetCuda(t) ==
    SetField(t, "er_set_cuda", "er_wait_port",
             [mgr EXCEPT !.cuda_version = Some(Req(t).cuda_version)])

\* what ensure_running_impl does when wait_port_open returned false
AfterTimeout(t) == Finished(t, ErrResult(StartFailed))

\* wait_port_open(port, 12 s): true once a connect succeeds, false when no
\* poll found the port open; then Ok(status_from(..)) or the start error
ErWaitPortOpen(t) ==
    /\ th[t].pc = "er_wait_port"
    /\ IF PortOpen(Unwrap(th[t].nport))
       THEN th' = [th EXCEPT ![t] = [@ EXCEPT !.pc = "st_is_running"]]
       ELSE th' = [th EXCEPT ![t] = AfterTimeout(t)]
    /\ UNCHANGED << mgr, download_cancel >> /\ OsUnchanged /\ StepUnchanged

(***************************************************************************)
(* BuiltinLlmManager::stop.                                                *)
(***************************************************************************)
\* let port_to_clean = *self.port.lock().unwrap();
StopReadPort(t) ==
    /\ th[t].pc = "stop_rd_port"
    /\ th' = [th EXCEPT ![t] = [@ EXCEPT !.pc = "stop_take_child", !.ptc = mgr.port]]
    /\ UNCHANGED << mgr, download_cancel >> /\ OsUnchanged /\ StepUnchanged

\* find_pid_by_port: the process listening on the port, whoever started it;
\* 0 stands for a process the supervisor did not spawn
find_pid_by_port(port) ==
    IF IsSome(listener[port]) THEN listener[port]
    ELSE IF port \in foreign THEN Some(0)
    ELSE None

\* a stop that drops the handle and leaves the process running
KillChild_drop_only(pid) == UNCHANGED << alive, listener, foreign, foreignKilled >>

\* child.kill(); child.wait()
KillChild(pid) ==
    /\ alive' = alive \ {pid}
    /\ listener' = Unlisten(pid)
    /\ UNCHANGED << foreign, foreignKilled >>

\* kill -9 <pid> of the process found by port
KillByPort(port) ==
    LET found == find_pid_by_port(port) IN
    IF found = None THEN UNCHANGED << alive, listener, foreign, foreignKilled >>
    ELSE IF Unwrap(found) = 0
    THEN /\ foreign' = foreign \ {port}
         /\ foreignKilled' = TRUE
         /\ UNCHANGED << alive, listener >>
    ELSE KillChild(Unwrap(found))

\* if let Some(child) = self.child.lock().unwrap().take() { kill; wait }
\* else if let Some(port) = port_to_clean { find_pid_by_port; kill -9 }
\* (the guard of the child lock lives to the end of the if-let statement)
StopTakeChild(t) ==
    /\ th[t].pc = "stop_take_child"
    /\ IF IsSome(mgr.child) THEN KillChild(Unwrap(mgr.child))
       ELSE IF IsSome(th[t].ptc) THEN KillByPort(Unwrap(th[t].ptc))
       ELSE UNCHANGED << alive, listener, foreign, foreignKilled >>
    /\ mgr' = [mgr EXCEPT !.child = None]
    /\ th' = [th EXCEPT ![t] = [@ EXCEPT !.pc = "stop_clr_port", !.ptc = None,
                                   !.didStop = TRUE]]
    /\ UNCHANGED << procPort, nextPid, download_cancel >> /\ StepUnchanged

StopClearPort(t) ==
    SetField(t, "stop_clr_port", "stop_clr_path", [mgr EXCEPT !.port = None])
StopClearPath(t) ==
    SetField(t, "stop_clr_path", "stop_clr_compute", [mgr EXCEPT !.model_path = None])
StopClearCompute(t) ==
    SetField(t, "stop_clr_compute", "stop_clr_backend", [mgr EXCEPT !.compute_mode = None])
StopClearBackend(t) ==
    SetField(t, "stop_clr_backend", "stop_clr_layers", [mgr EXCEPT !.gpu_backend = None])
StopClearLayers(t) ==
    SetField(t, "stop_clr_layers", "stop_clr_cuda", [mgr EXCEPT !.gpu_layers = None])
\* a stop() that ends without clearing the CUDA version
StopClearCuda_keeps_version(t) ==
    /\ th[t].pc = "stop_clr_cuda"
    /\ th' = [th EXCEPT ![t] =
                IF th[t].ret = "done" THEN Finished(t, OkResult(FALSE, None, None))
                ELSE [@ EXCEPT !.pc = th[t].ret, !.ret = "none"]]
    /\ UNCHANGED << mgr, download_cancel >> /\ OsUnchanged /\ StepUnchanged

\* the last assignment of stop(); the caller goes on
StopClearCuda(t) ==
    /\ th[t].pc = "stop_clr_cuda"
    /\ mgr' = [mgr EXCEPT !.cuda_version = None]
    /\ th' = [th EXCEPT ![t] =
                IF th[t].ret = "done" THEN Finished(t, OkResult(FALSE, None, None))
                ELSE [@ EXCEPT !.pc = th[t].ret, !.ret = "none"]]
    /\ UNCHANGED download_cancel /\ OsUnchanged /\ StepUnchanged

(***************************************************************************)
(* status_from / status_from_options.                                      *)
(***************************************************************************)
\* let running = state.builtin_llm.is_running();
StatusIsRunning(t) ==
    /\ th[t].pc = "st_is_running"
    /\ mgr' = [mgr EXCEPT !.child = IsRunningChild(mgr, alive)]
    /\ th' = [th EXCEPT ![t] =
                IF IsRunningValue(mgr, alive) THEN [@ EXCEPT !.pc = "st_rd_path"]
                ELSE Finished(t, OkResult(FALSE, None, None))]
    /\ UNCHANGED download_cancel /\ OsUnchanged /\ StepUnchanged

\* running_model_id: current_model_path().and_then(model_id_from_path)
StatusReadPath(t) ==
    /\ th[t].pc = "st_rd_path"
    /\ th' = [th EXCEPT ![t] = [@ EXCEPT !.pc = "st_rd_port", !.spath = mgr.model_path]]
    /\ UNCHANGED << mgr, download_cancel >> /\ OsUnchanged /\ StepUnchanged

\* base_url: current_port().map(..)
StatusReadPort(t) ==
    /\ th[t].pc = "st_rd_port"
    /\ th' = [th EXCEPT ![t] = Finished(t, OkResult(TRUE, th[t].spath, mgr.port))]
    /\ UNCHANGED << mgr, download_cancel >> /\ OsUnchanged /\ StepUnchanged

(***************************************************************************)
(* The environment: the spawned servers and other processes of the machine.*)
(***************************************************************************)
\* a spawned server exits on its own
ChildExit(pid) ==
    /\ pid \in alive
    /\ alive' = alive \ {pid}
    /\ listener' = Unlisten(pid)
    /\ UNCHANGED << mgr, procPort, nextPid, foreign, foreignKilled, th,
                    download_cancel >>
    /\ StepUnchanged

\* a spawned server binds the port it was launched with
ServerListen(pid) ==
    /\ pid \in alive
    /\ IsSome(procPort[pid])
    /\ ~PortOpen(Unwrap(procPort[pid]))
    /\ listener' = [listener EXCEPT ![Unwrap(procPort[pid])] = Some(pid)]
    /\ UNCHANGED << mgr, alive, procPort, nextPid, foreign, foreignKilled, th,
                    download_cancel >>
    /\ StepUnchanged

\* an unrelated process starts listening on a port nobody listens on
ForeignListen(port) ==
    /\ ~PortOpen(port)
    /\ foreign' = foreign \cup {port}
    /\ UNCHANGED << mgr, alive, procPort, listener, nextPid, foreignKilled, th,
                    download_cancel >>
    /\ StepUnchanged

\* an unrelated process closes its port
ForeignClose(port) ==
    /\ port \in foreign
    /\ foreign' = foreign \ {port}
    /\ UNCHANGED << mgr, alive, procPort, listener, nextPid, foreignKilled, th,
                    download_cancel >>
    /\ StepUnchanged

(***************************************************************************)
(* probe_fastest_mirror and download_to_file.                              *)
(*                                                                         *)
(* A file is a record: cells[p] is the URL whose p-th chunk the file holds *)
(* at position p (0: no chunk of any mirror, a hole or older bytes),       *)
(* complete tells that a writer wrote its stream to the end, open is the   *)
(* set of callers holding a handle of the file.                            *)
(***************************************************************************)
IdleDownload ==
    [ pc |-> "idle", urls |-> << >>, order |-> << >>, ordered |-> << >>,
      i |-> 1, attempted |-> 0, tried |-> << >>, errors |-> << >>,
      expected_len |-> None, written |-> 0, res |-> None,
      dest0 |-> None, creq |-> FALSE, fn |-> "none", allow |-> TRUE,
      stored |-> None, src |-> "none", left |-> {},
      archive |-> << >>, wrote |-> {} ]

\* the indices probe_fastest_mirror probes: the first index of every URL
\* that is not empty
ProbedIndices(urls) ==
    { i \in 1..Len(urls) :
        urls[i] # 0 /\ \A j \in 1..(i - 1) : urls[j] # urls[i] }

\* the results of probe_fastest_mirror: the probes that answered, sorted by
\* the time they took, which the network decides
ProbeOrders(urls) ==
    { o \in UNION { [1..n -> ProbedIndices(urls)] : n \in 0..Len(urls) } :
        \A a, b \in 1..Len(o) : a # b => o[a] # o[b] }

\* the indices download_to_file appends to the probe order
RECURSIVE Unanswered(_, _, _)
Unanswered(urls, order, i) ==
    IF i > Len(urls) THEN << >>
    ELSE (IF urls[i] # 0 /\ \A k \in 1..Len(order) : order[k] # i
          THEN << urls[i] >> ELSE << >>) \o Unanswered(urls, order, i + 1)

\* an ordered list that leaves the empty URLs out when no probe answered
ordered_urls_skip_empty(urls, order) ==
    [k \in 1..Len(order) |-> urls[order[k]]] \o Unanswered(urls, order, 1)

\* let ordered_urls = if order.is_empty() { urls.to_vec() } else { .. }
ordered_urls(urls, order) ==
    IF Len(order) = 0 THEN urls
    ELSE [k \in 1..Len(order) |-> urls[order[k]]] \o Unanswered(urls, order, 1)

DlUnchanged ==
    UNCHANGED << mgr, alive, procPort, listener, nextPid, foreign, foreignKilled,
                 hw, ephemeral, th, started, lastOk, destroyed >>
FileUnchanged == UNCHANGED rt /\ DlUnchanged

\* File::create on a path: a file that is there is truncated and keeps the
\* handles it has, a file that is not there is made
Created(f, c) ==
    Some([ cells |-> << >>, complete |-> FALSE,
           open |-> (IF IsSome(f) THEN Unwrap(f).open ELSE {}) \cup {c} ])

\* write_all through the handle of caller c, which stands at position pos
Written(f, c, pos, url) ==
    IF IsSome(f) /\ c \in Unwrap(f).open
    THEN Some([ Unwrap(f) EXCEPT !.cells =
             [p \in 1..MaxOf(Len(@), pos) |->
                 IF p = pos THEN url ELSE IF p <= Len(@) THEN @[p] ELSE 0] ])
    ELSE f

\* the stream of caller c is over: what it wrote is all the mirror sent
Ended(f, c) ==
    IF IsSome(f) /\ c \in Unwrap(f).open
    THEN Some([Unwrap(f) EXCEPT !.complete = TRUE]) ELSE f

\* the handle of caller c is dropped
Closed(f, c) ==
    IF IsSome(f) THEN Some([Unwrap(f) EXCEPT !.open = @ \ {c}]) ELSE f

\* the call of download_to_file by caller c, whose function and mode are fn
\* and allow: probe_fastest_mirror(..).await, ordered_urls
Download(c, urls, fn, allow) ==
    \E order \in ProbeOrders(urls) :
        dl' = [dl EXCEPT ![c] =
                 [IdleDownload EXCEPT !.pc = "for_url", !.urls = urls,
                                      !.order = order,
                                      !.ordered = ordered_urls(urls, order),
                                      !.dest0 = dest, !.fn = fn,
                                      !.allow = allow]]

\* download_to_file is called on its own
DownloadToFile(c, urls) ==
    /\ dl[c].pc = "idle"
    /\ Download(c, urls, "none", TRUE)
    /\ UNCHANGED << part, dest, download_cancel >> /\ FileUnchanged

\* what download_to_file leaves behind when it returns
Returned(c, ok, why) ==
    [dl EXCEPT ![c] = [@ EXCEPT !.pc = "done",
                          !.res = Some([ok |-> ok, why |-> why, at |-> dl[c].pc])]]

\* continue: the next URL of the loop
NextUrl(c, how) ==
    [dl[c] EXCEPT !.pc = "for_url", !.i = @ + 1,
                  !.errors = Append(@, << dl[c].ordered[dl[c].i], how >>)]

\* for url in &ordered_urls { if cancel.load(..) { remove .part; return Err } ..
\* and, after the loop, remove .part and return Err("download failed..")
DlForUrl(c) ==
    /\ dl[c].pc = "for_url"
    /\ IF dl[c].i > Len(dl[c].ordered)
       THEN part' = None /\ dl' = Returned(c, FALSE, "all mirrors failed")
       ELSE IF download_cancel
       THEN part' = None /\ dl' = Returned(c, FALSE, "cancelled")
       ELSE part' = part /\ dl' = [dl EXCEPT ![c].pc = "send"]
    /\ UNCHANGED << dest, download_cancel >> /\ FileUnchanged

\* client.get(url).send().await: an error (the only outcome for an empty
\* URL), a status that is no success, or a response with or without a
\* declared content length
DlSend(c) ==
    /\ dl[c].pc = "send"
    /\ LET url == dl[c].ordered[dl[c].i]
           Sent(d) == [d EXCEPT !.attempted = @ + 1, !.tried = Append(@, url)]
       IN  \/ dl' = [dl EXCEPT ![c] = Sent(NextUrl(c, "transport"))]
           \/ /\ url # 0
              /\ dl' = [dl EXCEPT ![c] = Sent(NextUrl(c, "http status"))]
           \/ /\ url # 0
              /\ \E len \in {None} \cup {Some(n) : n \in 0..MaxChunks} :
                   dl' = [dl EXCEPT ![c] =
                            Sent([dl[c] EXCEPT !.pc = "create",
                                               !.expected_len = len])]
    /\ UNCHANGED << part, dest, download_cancel >> /\ FileUnchanged

\* let mut file = std::fs::File::create(&tmp_path).map_err(..)?
DlCreate(c) ==
    /\ dl[c].pc = "create"
    /\ \/ /\ part' = Created(part, c)
          /\ dl' = [dl EXCEPT ![c].pc = "stream", ![c].written = 0]
       \/ part' = part /\ dl' = Returned(c, FALSE, "io")
    /\ UNCHANGED << dest, download_cancel >> /\ FileUnchanged

\* a stream loop that returns on cancellation and leaves the .part file
DlStreamCancelled_keeps_part(c) ==
    /\ download_cancel
    /\ part' = Closed(part, c) /\ dest' = Closed(dest, c)
    /\ dl' = Returned(c, FALSE, "cancelled")

\* if cancel.load(..) { drop(file); remove_file(&tmp_path); return Err(..) }
DlStreamCancelled(c) ==
    /\ download_cancel
    /\ part' = None /\ dest' = Closed(dest, c)
    /\ dl' = Returned(c, FALSE, "cancelled")

\* while let Some(item) = stream.next().await { cancel check; item?; write_all? }
DlStream(c) ==
    /\ dl[c].pc = "stream"
    /\ \/ \* the stream is over
          /\ part' = Ended(part, c) /\ dest' = Ended(dest, c)
          /\ dl' = [dl EXCEPT ![c].pc = "verify"]
       \/ \* an item arrives and the download was cancelled
          DlStreamCancelled(c)
       \/ \* the item is an error
          /\ ~download_cancel
          /\ part' = Closed(part, c) /\ dest' = Closed(dest, c)
          /\ dl' = Returned(c, FALSE, "stream")
       \/ \* the item is a chunk: it is written, or the write fails
          /\ ~download_cancel /\ dl[c].written < MaxChunks
          /\ \/ LET pos == dl[c].written + 1
                    url == dl[c].ordered[dl[c].i]
                IN  /\ part' = Written(part, c, pos, url)
                    /\ dest' = Written(dest, c, pos, url)
                    /\ dl' = [dl EXCEPT ![c].written = @ + 1]
             \/ /\ part' = Closed(part, c) /\ dest' = Closed(dest, c)
                /\ dl' = Returned(c, FALSE, "io")
    /\ UNCHANGED download_cancel /\ FileUnchanged

\* the size check, then remove_file(dest_file) and rename(tmp_path, dest_file)
DlVerify(c) ==
    /\ dl[c].pc = "verify"
    /\ IF IsSome(dl[c].expected_len) /\ dl[c].written # Unwrap(dl[c].expected_len)
       THEN /\ part' = None /\ dest' = Closed(dest, c)
            /\ dl' = [dl EXCEPT ![c] = NextUrl(c, "incomplete")]
       ELSE \/ /\ IsSome(part)
               /\ dest' = Closed(part, c) /\ part' = None
               /\ dl' = Returned(c, TRUE, "ok")
            \/ /\ dest' \in {Closed(dest, c), None} /\ part' = Closed(part, c)
               /\ IsSome(part) \/ dest' = None
               /\ dl' = Returned(c, FALSE, "io")
    /\ UNCHANGED download_cancel /\ FileUnchanged

\* the caller of the function has its result
DlReturn(c) ==
    /\ dl[c].pc = "done"
    /\ dl[c].fn = "none" \/ Unwrap(dl[c].res).at = dl[c].fn
    /\ dl' = [dl EXCEPT ![c] = IdleDownload]
    /\ UNCHANGED << part, dest, download_cancel >> /\ FileUnchanged

\* #[tauri::command] builtin_llm_cancel_download; creq notes the downloads
\* that were under way when it was invoked
builtin_llm_cancel_download ==
    /\ download_cancel' = TRUE
    /\ dl' = [c \in Callers |->
                IF dl[c].pc \in {"idle", "done"} THEN dl[c]
                ELSE [dl[c] EXCEPT !.creq = TRUE]]
    /\ UNCHANGED << part, dest >> /\ FileUnchanged

\* state.download_cancel.store(false, ..) of the command that downloads next
StoreCancelFalse(c) ==
    /\ dl[c].pc = "idle" /\ download_cancel
    /\ download_cancel' = FALSE
    /\ UNCHANGED << dl, part, dest >> /\ FileUnchanged

(***************************************************************************)
(* ensure_model_with_mode and builtin_llm_import_model.                    *)
(*                                                                         *)
(* dest is the file of the model in the models directory.  The chunks of   *)
(* mirror 1 are those of a GGUF file, the other mirrors serve something    *)
(* else; a file outside the models directory is made of such chunks too.   *)
(***************************************************************************)
\* fn file_starts_with(path, b"GGUF"): the file opens and its first bytes
\* are the magic
file_starts_with(f) ==
    IsSome(f) /\ Len(Unwrap(f).cells) >= 1 /\ Unwrap(f).cells[1] = 1

\* fn model_urls: the mirrors of a built-in model, the second one twice
model_urls == << 1, 2, 2 >>

\* the files a path outside the models directory can name: none, or a file
SourceFiles ==
    {None} \cup
    { Some([cells |-> s, complete |-> TRUE, open |-> {}]) :
        s \in UNION { [1..n -> 1..NumMirrors] : n \in 0..MaxChunks } }

\* std::fs::copy(src, target): the source does not open, or the target is
\* not made, or the copy stops after some chunks, or all is copied
Copies(src) ==
    IF src = None THEN { [ok |-> FALSE, file |-> None] }
    ELSE { [ok |-> TRUE, file |-> src], [ok |-> FALSE, file |-> None] } \cup
         { [ok |-> FALSE,
            file |-> Some([Unwrap(src) EXCEPT !.cells = SubSeq(@, 1, k),
                                              !.complete = FALSE])] :
             k \in 0..Len(Unwrap(src).cells) }

\* what a function other than download_to_file leaves behind at its return:
\* its result and the file it stored
Answered(c, fn, ok, why, stored) ==
    [dl EXCEPT ![c] = [@ EXCEPT !.pc = "done", !.fn = fn, !.stored = stored,
                          !.res = Some([ok |-> ok, why |-> why, at |-> fn])]]

\* async fn ensure_model_with_mode, to its return or to download_to_file
ensure_model_with_mode(c, builtin, allow_download, custom_url) ==
    /\ dl[c].pc = "idle"
    /\ IF IsSome(dest)
       THEN dest' = dest /\ dl' = Answered(c, "model", TRUE, "exists", dest)
       ELSE IF ~builtin
       THEN dest' = dest
            /\ dl' = Answered(c, "model", FALSE, "custom model not found", None)
       ELSE \/ \* a bundled model is there and is copied
               \E src \in SourceFiles \ {None} : \E cp \in Copies(src) :
                  /\ dest' = cp.file
                  /\ dl' = Answered(c, "model", cp.ok,
                                    IF cp.ok THEN "bundled" ELSE "io", cp.file)
            \/ \* no bundled model
               IF ~allow_download
               THEN dest' = dest
                    /\ dl' = Answered(c, "model", FALSE,
                                      "builtin model not found", None)
               ELSE LET urls == IF IsSome(custom_url) /\ Unwrap(custom_url) # 0
                                THEN << Unwrap(custom_url) >> ELSE model_urls
                    IN  dest' = dest /\ Download(c, urls, "model", allow_download)
    /\ UNCHANGED << part, download_cancel >> /\ FileUnchanged

\* download_to_file(..).await? of ensure_model_with_mode, and the check
\* if !file_starts_with(&target, b"GGUF") { remove_file(&target); return Err }
EmDownloaded(c) ==
    /\ dl[c].pc = "done" /\ dl[c].fn = "model" /\ Unwrap(dl[c].res).at # "model"
    /\ IF ~Unwrap(dl[c].res).ok
       THEN dest' = dest
            /\ dl' = Answered(c, "model", FALSE, Unwrap(dl[c].res).why, dest)
       ELSE IF ~file_starts_with(dest)
       THEN dest' = None
            /\ dl' = Answered(c, "model", FALSE, "not a GGUF file", None)
       ELSE dest' = dest /\ dl' = Answered(c, "model", TRUE, "downloaded", dest)
    /\ UNCHANGED << part, download_cancel >> /\ FileUnchanged

\* #[tauri::command] builtin_llm_import_model: the target is the file of the
\* model or, when that is there, a file of another name
builtin_llm_import_model(c, src) ==
    /\ dl[c].pc = "idle"
    /\ \E cp \in Copies(src) :
         LET stored == IF cp.ok /\ ~file_starts_with(cp.file) THEN None
                       ELSE cp.file
             why    == IF ~cp.ok THEN "io"
                       ELSE IF file_starts_with(cp.file) THEN "imported"
                       ELSE "not a GGUF file"
         IN  /\ dl' = Answered(c, "import", cp.ok /\ file_starts_with(cp.file),
                               why, stored)
             /\ dest' = IF IsSome(dest) THEN dest ELSE stored
    /\ UNCHANGED << part, download_cancel >> /\ FileUnchanged

(***************************************************************************)
(* ensure_runtime_with_mode and builtin_llm_runtime_status.                *)
(*                                                                         *)
(* rt is the set of the files of the runtime that are in the runtime       *)
(* directory; the archive of a download is the destination file dest.      *)
(***************************************************************************)
\* the files of a runtime: the server and the libraries it loads
RuntimeFiles == { "llama-server", "libllama", "libggml" }

\* fn find_llama_server: the server is in the directory
find_llama_server(dir) == "llama-server" \in dir

\* fn default_runtime_base_urls, or the custom URL that is not empty
runtime_urls(custom_runtime_url) ==
    IF IsSome(custom_runtime_url) /\ Unwrap(custom_runtime_url) # 0
    THEN << Unwrap(custom_runtime_url) >> ELSE << 1, 2 >>

\* no bundled runtime is left to try: is_bundled_runtime_only() returns an
\* error, any other system downloads the archive, whatever the mode is
RtFetch(c, allow) ==
    \/ dl' = Answered(c, "runtime", FALSE, "bundled runtime not found", None)
    \/ \E cu \in {None} \cup {Some(u) : u \in 0..1} :
          Download(c, runtime_urls(cu), "runtime", allow)

\* the files are about to be copied or extracted into the directory
Extracting(c, src, allow) ==
    [dl EXCEPT ![c] = [@ EXCEPT !.pc = "rt_extract", !.fn = "runtime",
                          !.src = src, !.left = RuntimeFiles,
                          !.allow = allow]]

\* fn cuda_dlls_present: a cublas64*.dll is in the directory
cuda_dlls_present(dir) == "cublas64" \in dir

\* the Windows build, a request for the CUDA backend in gpu or hybrid mode,
\* the server found without the cublas DLLs: the bundled cudart archive is
\* extracted, which may fail, or, the DLLs still missing, the cudart
\* archive is downloaded
CudartMissing(c, allow) ==
    \/ /\ rt' = rt \cup {"cublas64"}
       /\ dl' = Answered(c, "runtime", TRUE, "installed", None)
    \/ /\ rt' = rt
       /\ \E cu \in {None} \cup {Some(u) : u \in 0..1} :
             Download(c, runtime_urls(cu), "cudart", allow)

\* async fn ensure_runtime_with_mode, called by a command whose mode allows
\* downloads or not, to its first copy, extraction or download
ensure_runtime_with_mode(c, allow) ==
    /\ dl[c].pc = "idle"
    /\ IF find_llama_server(rt)
       THEN \/ rt' = rt /\ dl' = Answered(c, "runtime", TRUE, "installed", None)
            \/ hw.windows /\ ~cuda_dlls_present(rt) /\ CudartMissing(c, allow)
       ELSE /\ rt' = rt
            /\ \/ \E src \in {"dir", "zip"} : dl' = Extracting(c, src, allow)
               \/ RtFetch(c, allow)
    /\ UNCHANGED << part, dest, download_cancel >> /\ DlUnchanged

\* match download_to_file(.., &cp, ..).await of the cudart archive: Ok, the
\* archive is extracted, which may fail, and removed; Err, a warning; the
\* server is returned in both cases
CudartDownloaded(c) ==
    /\ dl[c].pc = "done" /\ dl[c].fn = "cudart"
    /\ Unwrap(dl[c].res).at # "runtime"
    /\ IF Unwrap(dl[c].res).ok
       THEN /\ rt' \in { rt, rt \cup {"cublas64"} }
            /\ dest' = None
       ELSE UNCHANGED << rt, dest >>
    /\ dl' = Answered(c, "runtime", TRUE, "installed", None)
    /\ UNCHANGED << part, download_cancel >> /\ DlUnchanged

\* one file is copied or extracted, in the order of the directory or of the
\* archive; after the last one find_llama_server tells the result
RtExtract(c) ==
    /\ dl[c].pc = "rt_extract"
    /\ IF dl[c].left # {}
       THEN /\ dest' = dest
            /\ \E e \in dl[c].left :
                 \/ /\ rt' = rt \cup {e}
                    /\ dl' = [dl EXCEPT ![c].left = @ \ {e}]
                 \/ \* let _ = std::fs::copy(..): the file is left out
                    /\ dl[c].src = "dir"
                    /\ rt' = rt
                    /\ dl' = [dl EXCEPT ![c].left = @ \ {e}]
                 \/ \* safe_archive_extract_with_progress(..)? fails
                    /\ dl[c].src # "dir"
                    /\ rt' = rt
                    /\ dl' = Answered(c, "runtime", FALSE, "extract", None)
       ELSE /\ rt' = rt
            /\ dest' = IF dl[c].src = "download" THEN None ELSE dest
            /\ IF find_llama_server(rt)
               THEN dl' = Answered(c, "runtime", TRUE, "extracted", None)
               ELSE IF dl[c].src = "download"
               THEN dl' = Answered(c, "runtime", FALSE, "runtime not found", None)
               ELSE RtFetch(c, dl[c].allow)
    /\ UNCHANGED << part, download_cancel >> /\ DlUnchanged

\* download_to_file(.., &zip_path, ..).await? of ensure_runtime_with_mode
RtDownloaded(c) ==
    /\ dl[c].pc = "done" /\ dl[c].fn = "runtime"
    /\ Unwrap(dl[c].res).at # "runtime"
    /\ IF Unwrap(dl[c].res).ok
       THEN dl' = Extracting(c, "download", dl[c].allow)
       ELSE dl' = Answered(c, "runtime", FALSE, Unwrap(dl[c].res).why, None)
    /\ UNCHANGED << part, dest, download_cancel, rt >> /\ DlUnchanged

\* #[tauri::command] builtin_llm_runtime_status: installed is the answer
builtin_llm_runtime_status(c) ==
    /\ dl[c].pc = "idle"
    /\ dl' = Answered(c, "runtime_status", find_llama_server(rt),
                      "runtime_status", None)
    /\ UNCHANGED << part, dest, download_cancel, rt >> /\ DlUnchanged

(***************************************************************************)
(* builtin_llm_delete_model and builtin_llm_delete_runtime.                *)
(***************************************************************************)
CannotDeleteRunning ==
    "Cannot delete a model that is currently running. Stop it first."

\* a directory of the runtime that takes the CUDA version in cpu mode too
runtime_dir_version_first(compute_mode, gpu_backend, cuda_version) ==
    IF EqIgnoreAsciiCase(gpu_backend, << "c", "u", "d", "a" >>)
    THEN << "cuda-", cuda_version >>
    ELSE IF compute_mode \in {"gpu", "hybrid"}
    THEN IF EqIgnoreAsciiCase(gpu_backend, << "m", "e", "t", "a", "l" >>)
         THEN << "metal" >> ELSE << "vulkan" >>
    ELSE << "cpu" >>

\* fn runtime_dir: the directory below <llm_dir>/runtime; gpu_backend is the
\* string, character by character
runtime_dir(compute_mode, gpu_backend, cuda_version) ==
    IF compute_mode \in {"gpu", "hybrid"}
    THEN IF EqIgnoreAsciiCase(gpu_backend, << "c", "u", "d", "a" >>)
         THEN << "cuda-", cuda_version >>
         ELSE IF EqIgnoreAsciiCase(gpu_backend, << "m", "e", "t", "a", "l" >>)
         THEN << "metal" >>
         ELSE << "vulkan" >>
    ELSE << "cpu" >>

\* the characters of the &str normalize_gpu_backend returns
BackendChars(gpu_backend) ==
    IF gpu_backend = "cuda" THEN << "c", "u", "d", "a" >>
    ELSE IF gpu_backend = "metal" THEN << "m", "e", "t", "a", "l" >>
    ELSE << "v", "u", "l", "k", "a", "n" >>

\* the call of runtime_dir with the normalised fields of a request
RequestRuntimeDir(req) ==
    runtime_dir(req.compute_mode, BackendChars(req.gpu_backend), req.cuda_version)

\* the results of a command that returns Result<(), String>
Unit == [ ok |-> TRUE, err |-> "" ]
Failure(msg) == [ ok |-> FALSE, err |-> msg ]
\* Err(format!("Model file not found for '{}'", model_id))
ModelFileNotFound(model_id) ==
    [ ok |-> FALSE, err |-> "Model file not found for", model_id |-> model_id ]

\* #[tauri::command] builtin_llm_delete_model: the guard, then the files of
\* the model are removed, if the file system has them and lets them go
builtin_llm_delete_model(t, o) ==
    /\ th[t].pc = "idle" /\ WindowOpen /\ started < MaxCommands
    /\ started' = started + 1
    /\ mgr' = [mgr EXCEPT !.child = IsRunningChild(mgr, alive)]
    /\ LET model_id   == sanitize_model_id(o.model_id)
           current_id == IF IsSome(mgr.model_path)
                         THEN model_id_from_path(Unwrap(mgr.model_path))
                         ELSE None
           refused    == IsRunningValue(mgr, alive) /\ current_id = Some(model_id)
       IN  \E r \in IF refused THEN { Failure(CannotDeleteRunning) }
                    ELSE { Unit, Failure("Failed to delete"),
                           ModelFileNotFound(model_id) } :
              th' = [th EXCEPT ![t] =
                       [IdleThread EXCEPT !.pc = "done", !.kind = "delete_model",
                           !.opts = Some(o), !.prev = lastOk,
                           !.seen = IF IsRunningValue(mgr, alive) THEN mgr.child
                                    ELSE None,
                           !.res = Some(r)]]
    /\ UNCHANGED download_cancel /\ OsUnchanged /\ AppUnchanged

\* #[tauri::command] builtin_llm_delete_runtime:
\* if state.builtin_llm.is_running() { state.builtin_llm.stop(); }
BeginDeleteRuntime(t, o) ==
    /\ th[t].pc = "idle" /\ WindowOpen /\ started < MaxCommands
    /\ started' = started + 1
    /\ mgr' = [mgr EXCEPT !.child = IsRunningChild(mgr, alive)]
    /\ th' = [th EXCEPT ![t] =
                [IdleThread EXCEPT
                    !.pc = IF IsRunningValue(mgr, alive) THEN "stop_rd_port"
                           ELSE "dr_remove",
                    !.ret = IF IsRunningValue(mgr, alive) THEN "dr_remove"
                            ELSE "none",
                    !.kind = "delete_runtime", !.opts = Some(o),
                    !.prev = lastOk,
                    !.seen = IF IsRunningValue(mgr, alive) THEN mgr.child
                             ELSE None]]
    /\ UNCHANGED download_cancel /\ OsUnchanged /\ AppUnchanged

\* if rt.exists() { remove_dir_all(&rt), three times at most }: the directory
\* is not there or is removed, or some of its files stay and the command fails
DrRemove(t) ==
    /\ th[t].pc = "dr_remove"
    /\ \/ rt' = {} /\ th' = [th EXCEPT ![t] = Finished(t, Unit)]
       \/ /\ rt # {} /\ rt' \in (SUBSET rt) \ { {} }
          /\ th' = [th EXCEPT ![t] = Finished(t, Failure("Failed to delete runtime dir"))]
    /\ UNCHANGED << mgr, hw, ephemeral, started, lastOk, destroyed,
                    download_cancel, dl, part, dest >>
    /\ OsUnchanged

(***************************************************************************)
(* builtin_llm_recommend and builtin_llm_benchmark.                        *)
(***************************************************************************)
\* the choice when the usefulness of the GPU is not looked at
RecommendedCompute_ignores_usefulness(probe, preferred_compute) ==
    IF IsSome(preferred_compute) THEN
        << Unwrap(preferred_compute), normalize_gpu_backend(None, probe.macos) >>
    ELSE IF probe.has_metal THEN << "gpu", "metal" >>
    ELSE IF probe.has_cuda THEN << "gpu", "cuda" >>
    ELSE IF probe.has_vulkan THEN << "hybrid", "vulkan" >>
    ELSE << "cpu", "none" >>

\* builtin_llm_recommend: (compute_mode, gpu_backend)
RecommendedCompute(probe, preferred_compute) ==
    LET gpu_useful ==
            is_gpu_worth_using(probe.gpu_name, probe.vram, probe.is_apple_silicon)
    IN  IF IsSome(preferred_compute) THEN
            LET pc0 == Unwrap(preferred_compute)
            IN  << pc0,
                   IF pc0 \in {"gpu", "hybrid"} /\ probe.has_cuda THEN "cuda"
                   ELSE IF pc0 \in {"gpu", "hybrid"} /\ probe.has_metal THEN "metal"
                   ELSE normalize_gpu_backend(None, probe.macos) >>
        ELSE IF probe.has_metal /\ gpu_useful THEN << "gpu", "metal" >>
        ELSE IF probe.has_cuda /\ gpu_useful THEN << "gpu", "cuda" >>
        ELSE IF probe.has_vulkan /\ gpu_useful THEN << "hybrid", "vulkan" >>
        ELSE << "cpu", "none" >>

\* builtin_llm_recommend: the tier, preferred or from the resources, clamped
\* and, for gpu and hybrid, capped by the VRAM
RecommendedTier(probe, preferred_tier, compute_mode) ==
    LET tier == Clamp(IF IsSome(preferred_tier) THEN Unwrap(preferred_tier)
                      ELSE tier_from_resources(probe.total_mem_gb, probe.vram,
                                               compute_mode, probe.cpu_cores),
                      0, TierMax)
    IN  IF compute_mode \in {"gpu", "hybrid"} THEN cap_tier_by_vram(tier, probe.vram)
        ELSE tier

\* #[tauri::command] builtin_llm_recommend
builtin_llm_recommend(t, o) ==
    /\ th[t].pc = "idle" /\ WindowOpen
    /\ LET preferred_tier == parse_preferred_tier(o.preferred_tier)
           compute == RecommendedCompute(hw,
                          normalize_preferred_compute(o.preferred_compute))
           tier == RecommendedTier(hw, preferred_tier, compute[1])
       IN  th' = [th EXCEPT ![t] =
                    [IdleThread EXCEPT !.pc = "done", !.kind = "recommend",
                        !.opts = Some(o),
                        !.res = Some([ ok |-> TRUE, tier |-> tier,
                                       recommended_model_id |-> tier_to_model_id(tier),
                                       recommended_compute_mode |-> compute[1],
                                       recommended_gpu_backend |-> compute[2],
                                       recommended_cuda_version |->
                                           normalize_cuda_version(o.cuda_version) ])]]
    /\ UNCHANGED << mgr, started, download_cancel >> /\ OsUnchanged /\ AppUnchanged

\* the tier of the speed ladder alone, the RAM not looked at
tier_from_benchmark_speed_only(tps, total_mem_gb, compute_mode, vram) ==
    LET tier == IF tps >= 420 THEN 5 ELSE IF tps >= 185 THEN 4
                ELSE IF tps >= 100 THEN 3 ELSE IF tps >= 50 THEN 2
                ELSE IF tps >= 20 THEN 1 ELSE 0
    IN  IF compute_mode \in {"gpu", "hybrid"} THEN cap_tier_by_vram(tier, vram)
        ELSE tier

\* fn tier_from_benchmark; tps is the whole part of the measured value, which
\* decides every comparison with the whole thresholds
tier_from_benchmark(tps, total_mem_gb, compute_mode, vram) ==
    LET tier == IF tps >= 420 THEN 5 ELSE IF tps >= 185 THEN 4
                ELSE IF tps >= 100 THEN 3 ELSE IF tps >= 50 THEN 2
                ELSE IF tps >= 20 THEN 1 ELSE 0
        final_tier == MinOf(tier, RamLadder(total_mem_gb))
    IN  IF compute_mode \in {"gpu", "hybrid"} THEN cap_tier_by_vram(final_tier, vram)
        ELSE final_tier

\* Err(format!("llama-bench not found in {}. ...", rt.display(), ..))
BenchNotFound(dir, runtime) ==
    [ ok |-> FALSE, err |-> "llama-bench not found in", dir |-> dir,
      runtime |-> runtime ]

\* #[tauri::command] builtin_llm_benchmark: llama-bench is looked for in the
\* runtime directory of the options and the benchmark model in the models
\* directory; once llama-bench has measured tokens_per_second, the tier
\* recommended for the machine
builtin_llm_benchmark(t, o, tokens_per_second) ==
    /\ th[t].pc = "idle" /\ WindowOpen
    /\ LET compute_mode == normalize_compute_mode(o.compute_mode)
           gpu_backend == normalize_gpu_backend(o.gpu_backend, hw.macos)
           cuda_version == normalize_cuda_version(o.cuda_version)
           dir == runtime_dir(compute_mode, BackendChars(gpu_backend), cuda_version)
           tier == tier_from_benchmark(tokens_per_second, hw.total_mem_gb,
                                       compute_mode, hw.vram)
       IN  \E bench_exe, model_exists \in BOOLEAN :
              th' = [th EXCEPT ![t] =
                       [IdleThread EXCEPT !.pc = "done", !.kind = "benchmark",
                           !.opts = Some(o),
                           !.res = Some(
                               IF ~bench_exe
                               THEN BenchNotFound(dir,
                                        IF compute_mode = "cpu" THEN "CPU"
                                        ELSE gpu_backend)
                               ELSE IF ~model_exists
                               THEN Failure("Benchmark model (Qwen3-0.6B) not installed")
                               ELSE IF tokens_per_second <= 0
                               THEN Failure("llama-bench returned 0 tok/s")
                               ELSE [ ok |-> TRUE,
                                      tokens_per_second |-> tokens_per_second,
                                      recommended_tier |-> tier,
                                      recommended_model_id |-> tier_to_model_id(tier) ])]]
    /\ UNCHANGED << mgr, started, download_cancel >> /\ OsUnchanged /\ AppUnchanged

\* ensure_running_impl: the value of --n-gpu-layers the server is launched with
n_gpu_layers(req) ==
    IF req.compute_mode = "gpu" THEN AllLayers
    ELSE IF req.compute_mode = "hybrid" THEN req.gpu_layers
    ELSE 0

(***************************************************************************)
(* safe_zip_extract_with_progress.                                         *)
(*                                                                         *)
(* An archive is the sequence of the names of its entries, a name a        *)
(* sequence of characters.  A path is the base it is resolved against,     *)
(* the destination directory or a root or drive of the file system, and    *)
(* the name below it.                                                      *)
(***************************************************************************)
\* entry.name().replace('\\', "/")
ReplaceBackslash(name) ==
    [i \in 1..Len(name) |-> IF name[i] = "\\" THEN "/" ELSE name[i]]

\* name.starts_with('/')
StartsWithSlash(name) == Len(name) >= 1 /\ name[1] = "/"

\* name.contains("..")
ContainsDotDot(name) ==
    \E i \in 1..(Len(name) - 1) : name[i] = "." /\ name[i + 1] = "."

\* Path::join(dest_dir, name): a name with a root, or on Windows with a
\* drive prefix, replaces the directory it is joined to
PathJoin(name, windows) ==
    IF StartsWithSlash(name) THEN [ base |-> "root", name |-> name ]
    ELSE IF /\ windows /\ Len(name) >= 2 /\ name[2] = ":"
            /\ \E k \in 1..Len(UpperLetters) :
                  name[1] \in { UpperLetters[k], LowerLetters[k] }
    THEN [ base |-> "drive", name |-> name ]
    ELSE [ base |-> "dest", name |-> name ]

\* safe_zip_extract_with_progress is called with an archive
BeginZipExtract(c, archive) ==
    /\ dl[c].pc = "idle"
    /\ dl' = [dl EXCEPT ![c] =
                [IdleDownload EXCEPT !.pc = "zip_entry", !.fn = "extract",
                                     !.archive = archive]]
    /\ UNCHANGED << part, dest, download_cancel >> /\ FileUnchanged

\* for i in 0..archive.len(): the entry is skipped, or its directory is made
\* or its file created and written, which may fail; Ok(()) after the loop
ZipEntry(c) ==
    /\ dl[c].pc = "zip_entry"
    /\ IF dl[c].i > Len(dl[c].archive)
       THEN dl' = Answered(c, "extract", TRUE, "extracted", None)
       ELSE LET name == ReplaceBackslash(dl[c].archive[dl[c].i])
            IN  IF StartsWithSlash(name) \/ ContainsDotDot(name)
                THEN dl' = [dl EXCEPT ![c].i = @ + 1]
                ELSE \/ dl' = [dl EXCEPT ![c].i = @ + 1,
                                         ![c].wrote = @ \cup
                                             { PathJoin(name, hw.windows) }]
                     \/ dl' = Answered(c, "extract", FALSE, "io", None)
    /\ UNCHANGED << part, dest, download_cancel >> /\ FileUnchanged

(***************************************************************************)
(* ensure_running_impl, the acquisition in steps: the flag, the runtime    *)
(* and the model, with the downloads they make.  Thread t downloads as     *)
(* caller c.                                                               *)
(***************************************************************************)
\* a model file of the models directory that is whole
InstalledModel == Some([cells |-> << 1 >>, complete |-> TRUE, open |-> {}])

\* state.download_cancel.store(false, ..); dest is from here on the file of
\* the model of this request, which the models directory has or has not
ErStoreCancel(t) ==
    /\ th[t].pc = "er_acquire"
    /\ download_cancel' = FALSE
    /\ dest' \in { None, InstalledModel }
    /\ th' = [th EXCEPT ![t] = [@ EXCEPT !.pc = "er_runtime"]]
    /\ UNCHANGED << mgr, hw, ephemeral, started, lastOk, destroyed, dl, part, rt >>
    /\ OsUnchanged

\* let server = ensure_runtime_with_mode(..)
ErRuntime(t, c) ==
    /\ th[t].pc = "er_runtime"
    /\ ensure_runtime_with_mode(c, Req(t).allow_download)

\* .await?: the error is returned, or the model is next
ErRuntimeDone(t, c) ==
    /\ th[t].pc = "er_runtime"
    /\ dl[c].pc = "done" /\ dl[c].fn = "runtime" /\ Unwrap(dl[c].res).at = "runtime"
    /\ dl' = [dl EXCEPT ![c] = IdleDownload]
    /\ th' = [th EXCEPT ![t] =
                IF Unwrap(dl[c].res).ok THEN [@ EXCEPT !.pc = "er_model"]
                ELSE Finished(t, ErrResult(Unwrap(dl[c].res).why))]
    /\ UNCHANGED << mgr, hw, ephemeral, started, lastOk, destroyed,
                    download_cancel, part, dest, rt >>
    /\ OsUnchanged

\* let model = ensure_model_with_mode(..)
ErModel(t, c) ==
    /\ th[t].pc = "er_model"
    /\ ensure_model_with_mode(c, is_builtin_qwen3_model_id(Req(t).model_id),
                              Req(t).allow_download, None)

\* .await?: the error is returned, or the port is picked next
ErModelDone(t, c) ==
    /\ th[t].pc = "er_model"
    /\ dl[c].pc = "done" /\ dl[c].fn = "model" /\ Unwrap(dl[c].res).at = "model"
    /\ dl' = [dl EXCEPT ![c] = IdleDownload]
    /\ th' = [th EXCEPT ![t] =
                IF Unwrap(dl[c].res).ok
                THEN [@ EXCEPT !.pc = "er_pick_port",
                               !.model = Some(model_file_path(Req(t).model_id))]
                ELSE Finished(t, ErrResult(Unwrap(dl[c].res).why))]
    /\ UNCHANGED << mgr, hw, ephemeral, started, lastOk, destroyed,
                    download_cancel, part, dest, rt >>
    /\ OsUnchanged

(***************************************************************************)
(* Inputs.                                                                 *)
(***************************************************************************)
CustomId == << "m", "1" >>
CustomIdGguf == CustomId \o DotGguf
UnsanitizedId == << " ", "m", "/", "2", " " >>

Opt(m, c, b, l, v) ==
    [ model_id |-> m, mode |-> None, compute_mode |-> c, gpu_backend |-> b,
      gpu_layers |-> l, cuda_version |-> v ]

OptBase == Opt(Some(CustomId), Some("hybrid"), Some("cuda"), Some(8), Some("12.4"))

\* the requests of the sequential runs: OptBase and requests that differ
\* from it or from one another in one field
SeqOptions ==
    { OptBase,
      [OptBase EXCEPT !.model_id = None],
      [OptBase EXCEPT !.model_id = Some(CustomIdGguf)],
      [OptBase EXCEPT !.model_id = Some(UnsanitizedId)],
      [OptBase EXCEPT !.compute_mode = Some("gpu")],
      [OptBase EXCEPT !.compute_mode = Some("gpu"), !.gpu_layers = Some(16)],
      [OptBase EXCEPT !.gpu_backend = None],
      [OptBase EXCEPT !.gpu_backend = None, !.cuda_version = Some("13.1")],
      [OptBase EXCEPT !.gpu_layers = Some(16)],
      [OptBase EXCEPT !.cuda_version = Some("13.1")] }

ConcOptions == { OptBase, [OptBase EXCEPT !.model_id = None] }

AutoOpt(d, pt, pc0, l, v) ==
    [ allow_download |-> d, preferred_tier |-> pt, preferred_compute |-> pc0,
      gpu_layers |-> l, cuda_version |-> v ]

Profile(macos, cores, mem, vram, name, cuda, vulkan, apple) ==
    [ macos |-> macos, cpu_cores |-> cores, total_mem_gb |-> mem, vram |-> vram,
      gpu_name |-> name, has_cuda |-> cuda, has_vulkan |-> vulkan,
      has_metal |-> macos, is_apple_silicon |-> apple, windows |-> FALSE ]

\* a Linux desktop with an 8 GB NVIDIA card, 32 GB RAM, 16 threads
ProfileCuda == Profile(FALSE, 16, 32, Some(8 * MibPerGib), Some({}), TRUE, TRUE, FALSE)
\* the same machine under the Windows build (cfg(target_os = "windows"))
ProfileWindows == [ProfileCuda EXCEPT !.windows = TRUE]
\* a laptop with an Intel integrated GPU and 8 GB RAM
ProfileIntel ==
    Profile(FALSE, 8, 8, Some(2 * MibPerGib), Some({"intel", "uhd"}), FALSE, TRUE, FALSE)
\* an Apple Silicon machine, 16 GB unified memory
ProfileApple == Profile(TRUE, 8, 16, Some(12 * MibPerGib), None, FALSE, FALSE, TRUE)

(***************************************************************************)
(* Specifications.                                                         *)
(***************************************************************************)
InitWith(profiles, ports, files) ==
    /\ mgr = NewManager
    /\ alive = {}
    /\ procPort = [p \in Pids |-> None]
    /\ listener = [p \in Ports |-> None]
    /\ nextPid = 1
    /\ foreign = {}
    /\ foreignKilled = FALSE
    /\ hw \in profiles
    /\ ephemeral = ports
    /\ th = [t \in Threads |-> IdleThread]
    /\ started = 0
    /\ lastOk = None
    /\ destroyed = FALSE
    /\ download_cancel = FALSE
    /\ dl = [c \in Callers |-> IdleDownload]
    /\ \E f \in files : part = f[1] /\ dest = f[2]
    /\ rt = {}

\* the steps of a command under way, the acquisition apart
CommandStep(t) ==
    \/ AsCandidate(t) \/ AsWhile(t) \/ AsMatch(t)
    \/ ErIsRunning(t) \/ ErReadPath(t) \/ ErReadCompute(t) \/ ErReadBackend(t)
    \/ ErReadLayers(t) \/ ErReadCuda(t) \/ ErCompare(t) \/ ErDecided(t)
    \/ ErPickPort(t) \/ ErSpawn(t)
    \/ ErSetChild(t) \/ ErSetPort(t) \/ ErSetPath(t) \/ ErSetCompute(t)
    \/ ErSetBackend(t) \/ ErSetLayers(t) \/ ErSetCuda(t) \/ ErWaitPortOpen(t)
    \/ StopReadPort(t) \/ StopTakeChild(t) \/ StopClearPort(t)
    \/ StopClearPath(t) \/ StopClearCompute(t) \/ StopClearBackend(t)
    \/ StopClearLayers(t) \/ StopClearCuda(t)
    \/ StatusIsRunning(t) \/ StatusReadPath(t) \/ StatusReadPort(t)
    \/ Return(t)

\* the steps of a command under way, the acquisition in one step
ThreadStep(t) == CommandStep(t) \/ ErAcquire(t)

\* the spawned servers
ServerStep ==
    \/ \E pid \in Pids : ChildExit(pid)
    \/ \E pid \in Pids : ServerListen(pid)

\* the other processes of the machine
ForeignStep ==
    \/ \E port \in Ports : ForeignListen(port)
    \/ \E port \in Ports : ForeignClose(port)

ConcAutoOptions == { AutoOpt(None, Some(<< "0" >>), Some("cpu"), None, None) }

\* the files next to the destination before a download: none
NoFiles == { << None, None >> }

\* Spec: the commands run on NumThreads threads and interleave at every lock
Init == InitWith({ProfileCuda}, {1}, NoFiles)
Next ==
    \/ \E t \in Threads, o \in ConcOptions : BeginEnsureRunning(t, o)
    \/ \E t \in Threads, a \in ConcAutoOptions : BeginAutoStart(t, a)
    \/ \E t \in Threads : BeginStop(t)
    \/ \E t \in Threads : BeginDestroy(t)
    \/ \E t \in Threads : ThreadStep(t)
    \/ ServerStep
Spec == Init /\ [][Next]_vars

\* the commands of a sequential run: each is issued on thread 1 once the one
\* before has returned
SeqCommand ==
    \/ \E o \in SeqOptions : BeginEnsureRunning(1, o)
    \/ \E a \in ConcAutoOptions : BeginAutoStart(1, a)
    \/ BeginStop(1)
    \/ BeginStatus(1)
    \/ BeginDestroy(1)

\* SeqSpec: a sequential run, with the spawned servers listening and exiting
\* at any moment
SeqInit == InitWith({ProfileCuda}, Ports, NoFiles)
SeqNext ==
    \/ SeqCommand
    \/ ThreadStep(1)
    \/ ServerStep
SeqSpec == SeqInit /\ [][SeqNext]_vars

\* HostSpec: a sequential run on a machine where other processes open and
\* close ports as well
HostInit == InitWith({ProfileCuda}, Ports, NoFiles)
HostNext ==
    \/ SeqCommand
    \/ ThreadStep(1)
    \/ ServerStep
    \/ ForeignStep
HostSpec == HostInit /\ [][HostNext]_vars

\* AutoSpec: auto_start alone, on every machine profile and with every
\* combination of preferences
AutoOptions ==
    { AutoOpt(None, pt, pc0, None, None) :
        pt \in {None, Some(<< "a", "u", "t", "o" >>), Some(<< "2" >>), Some(<< " ", "5" >>)},
        pc0 \in {None, Some("cpu"), Some("hybrid")} }

AutoInit == InitWith({ProfileCuda, ProfileIntel, ProfileApple}, {1}, NoFiles)
AutoNext ==
    \/ \E a \in AutoOptions : BeginAutoStart(1, a)
    \/ ThreadStep(1)
    \/ ServerStep
AutoSpec == AutoInit /\ [][AutoNext]_vars

\* DlSpec: one download, with the cancel command arriving at any moment
UrlLists == UNION { [1..n -> Urls] : n \in 1..MaxUrls }
\* the files a download finds: a .part file an earlier download left, an
\* older destination file (cell 0: not written by a mirror of this run)
DlFiles ==
    { << p, d >> :
        p \in {None, Some([cells |-> << 0 >>, complete |-> FALSE, open |-> {}])},
        d \in {None, Some([cells |-> << 0 >>, complete |-> TRUE, open |-> {}])} }

DlInit == InitWith({ProfileCuda}, {1}, DlFiles)
DlNext ==
    \/ \E urls \in UrlLists : DownloadToFile(1, urls)
    \/ DlForUrl(1)
    \/ DlSend(1)
    \/ DlCreate(1)
    \/ DlStream(1)
    \/ DlVerify(1)
    \/ builtin_llm_cancel_download
    \/ StoreCancelFalse(1)
DlSpec == DlInit /\ [][DlNext]_vars

\* PairSpec: two commands download into the same destination at the same
\* time, each once and from one mirror
PairUrls == { << 1 >>, << 2 >> }

PairInit == InitWith({ProfileCuda}, {1}, NoFiles)
PairNext ==
    \/ \E c \in Callers, urls \in PairUrls : DownloadToFile(c, urls)
    \/ \E c \in Callers : DlForUrl(c)
    \/ \E c \in Callers : DlSend(c)
    \/ \E c \in Callers : DlCreate(c)
    \/ \E c \in Callers : DlStream(c)
    \/ \E c \in Callers : DlVerify(c)
    \/ builtin_llm_cancel_download
    \/ \E c \in Callers : StoreCancelFalse(c)
PairSpec == PairInit /\ [][PairNext]_vars

\* ModelSpec: ensure_model_with_mode and builtin_llm_import_model, one call
\* after the other, with the cancel command arriving at any moment
ModelInit == InitWith({ProfileCuda}, {1}, NoFiles)
ModelNext ==
    \/ \E builtin, allow \in BOOLEAN :
         \E cu \in {None} \cup {Some(u) : u \in 0..1} :
            ensure_model_with_mode(1, builtin, allow, cu)
    \/ \E src \in SourceFiles : builtin_llm_import_model(1, src)
    \/ DlForUrl(1)
    \/ DlSend(1)
    \/ DlCreate(1)
    \/ DlStream(1)
    \/ DlVerify(1)
    \/ EmDownloaded(1)
    \/ DlReturn(1)
    \/ builtin_llm_cancel_download
    \/ StoreCancelFalse(1)
ModelSpec == ModelInit /\ [][ModelNext]_vars

\* InstallSpec: caller 1 installs the runtime while caller 2 asks for the
\* status of the runtime
InstallInit == InitWith({ProfileCuda}, {1}, NoFiles)
InstallNext ==
    \/ \E allow \in BOOLEAN : ensure_runtime_with_mode(1, allow)
    \/ DlForUrl(1)
    \/ DlSend(1)
    \/ DlCreate(1)
    \/ DlStream(1)
    \/ DlVerify(1)
    \/ RtDownloaded(1)
    \/ RtExtract(1)
    \/ builtin_llm_runtime_status(2)
    \/ \E c \in Callers : DlReturn(c)
    \/ builtin_llm_cancel_download
    \/ StoreCancelFalse(1)
InstallSpec == InstallInit /\ [][InstallNext]_vars

\* DeleteSpec: a sequential run in which models and runtimes are deleted too
DeleteOptions ==
    { OptBase,
      [OptBase EXCEPT !.model_id = Some(CustomIdGguf)],
      [OptBase EXCEPT !.compute_mode = Some("cpu")] }

DeleteInit == InitWith({ProfileCuda}, Ports, NoFiles)
DeleteNext ==
    \/ SeqCommand
    \/ \E o \in DeleteOptions : builtin_llm_delete_model(1, o)
    \/ \E o \in DeleteOptions : BeginDeleteRuntime(1, o)
    \/ DrRemove(1)
    \/ ThreadStep(1)
    \/ ServerStep
DeleteSpec == DeleteInit /\ [][DeleteNext]_vars

\* QuerySpec: the commands that compute a recommendation, on every machine
\* of a grid of memory sizes, VRAM sizes, core counts and GPU kinds
MemSizes == { 4, 7, 8, 11, 12, 20, 32, 48 }
VramSizes ==
    { None, Some(0), Some(2 * MibPerGib), Some(4 * MibPerGib),
      Some(6 * MibPerGib - 1), Some(6 * MibPerGib), Some(8 * MibPerGib),
      Some(10 * MibPerGib - 1), Some(10 * MibPerGib), Some(12 * MibPerGib),
      Some(24 * MibPerGib) }
CoreCounts == { 4, 8, 20, 24 }
GpuNames == { None, Some({}), Some({"intel", "uhd"}) }
\* macos, has_cuda, has_vulkan, is_apple_silicon
GpuKinds ==
    { << FALSE, TRUE, TRUE, FALSE >>, << FALSE, FALSE, TRUE, FALSE >>,
      << FALSE, FALSE, FALSE, FALSE >>, << TRUE, FALSE, FALSE, TRUE >>,
      << TRUE, FALSE, FALSE, FALSE >> }
QueryProfiles ==
    { Profile(k[1], cores, mem, vram, name, k[2], k[3], k[4]) :
        cores \in CoreCounts, mem \in MemSizes, vram \in VramSizes,
        name \in GpuNames, k \in GpuKinds }

RecommendOptions ==
    [ preferred_tier : { None, Some(<< "a", "u", "t", "o" >>), Some(<< "0" >>),
                         Some(<< "3" >>), Some(<< "5" >>) },
      preferred_compute : { None, Some("cpu"), Some("gpu"), Some("hybrid") },
      cuda_version : { None } ]
BenchmarkOptions ==
    [ compute_mode : { None, Some("gpu"), Some("hybrid") },
      gpu_backend : { None }, cuda_version : { None }, gpu_layers : { None } ]
TpsValues == { 0, 1, 19, 20, 49, 50, 99, 100, 184, 185, 419, 420, 1000 }

QueryInit == InitWith(QueryProfiles, {1}, NoFiles)
QueryNext ==
    \/ \E o \in RecommendOptions : builtin_llm_recommend(1, o)
    \/ \E o \in BenchmarkOptions, tps \in TpsValues : builtin_llm_benchmark(1, o, tps)
    \/ Return(1)
QuerySpec == QueryInit /\ [][QueryNext]_vars

\* LayersSpec: a sequential run on a machine whose card has 4 GB
ProfileCuda4Gb ==
    Profile(FALSE, 16, 32, Some(4 * MibPerGib), Some({}), TRUE, TRUE, FALSE)
LayersInit == InitWith({ProfileCuda4Gb}, Ports, NoFiles)
LayersSpec == LayersInit /\ [][SeqNext]_vars

\* IdSpec: delete_model called with every kind of model id: absent, empty,
\* every string of up to MaxShortId characters of IdAlphabet, and long ones
MaxShortId == 3
IdAlphabet == { "a", "9", "_", "-", ".", " ", "/", "\t" }
RECURSIVE StringsUpTo(_)
StringsUpTo(n) ==
    IF n = 0 THEN { << >> }
    ELSE LET shorter == StringsUpTo(n - 1)
         IN  shorter \cup { Append(s, ch) : s \in shorter, ch \in IdAlphabet }
Repeat(ch, n) == [i \in 1..n |-> ch]
LongIds ==
    { Repeat("a", IdMaxLen), Repeat("a", IdMaxLen + 1),
      Repeat("/", IdMaxLen + 10),
      << ".", "_" >> \o Repeat("a", IdMaxLen) \o << "/", "b" >>,
      Repeat(" ", IdMaxLen) \o << "a" >>,
      Repeat("a", IdMaxLen - 1) \o << "/", "/", "-" >>,
      << "-" >> \o Repeat("/", IdMaxLen) \o << "b", "." >> }
IdOptions ==
    { [OptBase EXCEPT !.model_id = id] :
        id \in { None } \cup { Some(s) : s \in StringsUpTo(MaxShortId) \cup LongIds } }
IdInit == InitWith({ProfileCuda}, Ports, NoFiles)
IdNext ==
    \/ \E o \in IdOptions : builtin_llm_delete_model(1, o)
    \/ Return(1)
IdSpec == IdInit /\ [][IdNext]_vars

\* BenchSpec: the benchmark asked for every compute mode, backend and CUDA
\* version, on a Linux machine and on a Mac
RawModes == { None, Some("cpu"), Some("gpu"), Some("hybrid"), Some("GPU"), Some("") }
RawBackends ==
    { None, Some("cuda"), Some("CUDA"), Some("metal"), Some("Metal"),
      Some("vulkan"), Some("none"), Some("opencl") }
RawVersions == { None, Some("12.4"), Some("13.1"), Some("11.8") }
BenchOptions ==
    [ compute_mode : RawModes, gpu_backend : RawBackends,
      cuda_version : RawVersions, gpu_layers : { None } ]
BenchInit == InitWith({ProfileCuda, ProfileApple}, Ports, NoFiles)
BenchNext ==
    \/ \E o \in BenchOptions, tps \in { 0, 50 } : builtin_llm_benchmark(1, o, tps)
    \/ Return(1)
BenchSpec == BenchInit /\ [][BenchNext]_vars

\* PresentSpec: the model file and the server of the runtime are there before
\* the first call: on the Linux machine the model and the runtime are asked
\* for, on the Windows machine the runtime, with or without the cublas DLLs
PresentModels ==
    { Some([cells |-> << u >>, complete |-> TRUE, open |-> {}]) : u \in 1..NumMirrors }
PresentInit ==
    /\ mgr = NewManager
    /\ alive = {}
    /\ procPort = [p \in Pids |-> None]
    /\ listener = [p \in Ports |-> None]
    /\ nextPid = 1
    /\ foreign = {}
    /\ foreignKilled = FALSE
    /\ hw \in { ProfileCuda, ProfileWindows }
    /\ ephemeral = {1}
    /\ th = [t \in Threads |-> IdleThread]
    /\ started = 0
    /\ lastOk = None
    /\ destroyed = FALSE
    /\ download_cancel = FALSE
    /\ dl = [c \in Callers |-> IdleDownload]
    /\ part = None
    /\ dest \in IF hw.windows THEN { None } ELSE PresentModels
    /\ rt \in { RuntimeFiles, RuntimeFiles \cup {"cublas64"} }
PresentNext ==
    \/ /\ ~hw.windows
       /\ \E builtin, allow \in BOOLEAN :
            \E cu \in {None} \cup {Some(u) : u \in 0..1} :
               ensure_model_with_mode(1, builtin, allow, cu)
    \/ \E allow \in BOOLEAN : ensure_runtime_with_mode(1, allow)
    \/ DlForUrl(1)
    \/ DlSend(1)
    \/ DlCreate(1)
    \/ DlStream(1)
    \/ DlVerify(1)
    \/ CudartDownloaded(1)
    \/ DlReturn(1)
    \/ builtin_llm_cancel_download
    \/ StoreCancelFalse(1)
PresentSpec == PresentInit /\ [][PresentNext]_vars

\* ZipSpec: archives of up to MaxEntries entries are extracted, on the Linux
\* and on the Windows build
MaxEntries == 2
ZipNames ==
    { << "a" >>, << "d", "/" >>, << "d", "/", "a" >>, << "d", "\\", "a" >>,
      << "/", "a" >>, << "\\", "a" >>, << ".", ".", "/", "a" >>,
      << "d", "/", ".", ".", "/", "a" >>, << ".", ".", "\\", "a" >>,
      << "a", ".", ".", "b" >>, << ".", "a" >>,
      << "C", ":", "/", "a" >>, << "C", ":", "\\", "a" >>, << "c", ":", "a" >> }
Archives == UNION { [1..n -> ZipNames] : n \in 0..MaxEntries }
ZipInit == InitWith({ProfileCuda, ProfileWindows}, {1}, NoFiles)
ZipNext ==
    \/ \E archive \in Archives : BeginZipExtract(1, archive)
    \/ ZipEntry(1)
    \/ DlReturn(1)
ZipSpec == ZipInit /\ [][ZipNext]_vars

\* FetchSpec: auto_start on a machine whose runtime is installed, the models
\* being installed or not; the acquisition of every attempt runs in steps,
\* with its downloads and with the cancel command arriving at any moment
FetchOptions ==
    { AutoOpt(d, Some(<< "1" >>), Some("cpu"), None, None) : d \in { None, Some(FALSE) } }

FetchInit ==
    /\ mgr = NewManager
    /\ alive = {}
    /\ procPort = [p \in Pids |-> None]
    /\ listener = [p \in Ports |-> None]
    /\ nextPid = 1
    /\ foreign = {}
    /\ foreignKilled = FALSE
    /\ hw = ProfileCuda
    /\ ephemeral = {1}
    /\ th = [t \in Threads |-> IdleThread]
    /\ started = 0
    /\ lastOk = None
    /\ destroyed = FALSE
    /\ download_cancel = FALSE
    /\ dl = [c \in Callers |-> IdleDownload]
    /\ part = None
    /\ dest = None
    /\ rt = RuntimeFiles
FetchNext ==
    \/ \E a \in FetchOptions : BeginAutoStart(1, a)
    \/ CommandStep(1)
    \/ ErStoreCancel(1)
    \/ ErRuntime(1, 1)
    \/ ErRuntimeDone(1, 1)
    \/ ErModel(1, 1)
    \/ ErModelDone(1, 1)
    \/ DlForUrl(1)
    \/ DlSend(1)
    \/ DlCreate(1)
    \/ DlStream(1)
    \/ DlVerify(1)
    \/ EmDownloaded(1)
    \/ builtin_llm_cancel_download
    \/ ServerStep
FetchSpec == FetchInit /\ [][FetchNext]_vars

\* AgreeSpec: the frontend asks builtin_llm_recommend and then
\* builtin_llm_auto_start with the same preferences, on machines of every
\* kind of GPU
ProfileNoGpu == Profile(FALSE, 4, 4, None, None, FALSE, FALSE, FALSE)
ProfileVulkan == Profile(FALSE, 8, 16, Some(6 * MibPerGib), Some({}), FALSE, TRUE, FALSE)
ProfileIntelMac == Profile(TRUE, 8, 16, None, Some({"intel", "uhd"}), FALSE, FALSE, FALSE)
AgreeProfiles ==
    { ProfileCuda, ProfileCuda4Gb, ProfileIntel, ProfileApple, ProfileNoGpu,
      ProfileVulkan, ProfileIntelMac }
AgreeOptions ==
    [ preferred_tier : { None, Some(<< "3" >>), Some(<< "5" >>) },
      preferred_compute : { None, Some("cpu"), Some("gpu"), Some("hybrid") },
      cuda_version : { None, Some("13.1") } ]

AgreeInit == InitWith(AgreeProfiles, {1}, NoFiles)
AgreeNext ==
    \/ \E o \in AgreeOptions : builtin_llm_recommend(2, o)
    \/ /\ th[2].pc = "done"
       /\ LET o == Unwrap(th[2].opts)
          IN  BeginAutoStart(1, AutoOpt(None, o.preferred_tier, o.preferred_compute,
                                        None, o.cuda_version))
    \/ ThreadStep(1)
    \/ ServerStep
AgreeSpec == AgreeInit /\ [][AgreeNext]_vars

(***************************************************************************)
(* Properties.                                                             *)
(***************************************************************************)
\* C1: under any interleaving of ensure_running, auto_start and stop on one
\* supervisor, at most one server process spawned by the supervisor is alive
\* (the supervisor has one child slot, so it tracks at most one record).
C1_AtMostOneServerAlive == Cardinality(alive) <= 1

\* C2: if ensure_running succeeded and the server it started is still alive,
\* a second ensure_running with the same options decides to reuse it, and a
\* call that returns with that server alive spawned nothing, stopped nothing
\* and returns Ok with the same port.
C2_IdenticalRequestReuses ==
    \A t \in Threads :
        LET c == th[t]
            same == /\ c.kind = "ensure" /\ IsSome(c.prev)
                    /\ Unwrap(c.prev).opts = Unwrap(c.opts)
                    /\ IsSome(Unwrap(c.prev).child)
                    /\ Unwrap(Unwrap(c.prev).child) \in alive
        IN  /\ (same /\ c.pc = "er_decided") => c.reuse = Some(TRUE)
            /\ (same /\ c.pc = "done") =>
                   /\ ~c.didSpawn /\ ~c.didStop
                   /\ Unwrap(c.res).ok
                   /\ Unwrap(c.res).port = Unwrap(c.prev).port

\* C3: in a sequential run at most one spawned process is alive at any
\* moment; an ensure_running that found a server running and does not reuse
\* it has killed that server once its stop took the child, and it spawns
\* only after that stop.
C3_StopBeforeSpawn ==
    /\ Cardinality(alive) <= 1
    /\ \A t \in Threads :
        LET c == th[t] IN
        /\ (c.reuse = Some(FALSE) /\ c.didStop) => Unwrap(c.seen) \notin alive
        /\ (IsSome(c.seen) /\ c.didSpawn) => (c.reuse = Some(FALSE) /\ c.didStop)

\* the second of two ensure_running calls that differ in the model identity
\* only has returned: it stopped the first server and started another one
C3_Witness ==
    LET c == th[1] IN
    /\ c.pc = "done" /\ c.kind = "ensure" /\ IsSome(c.prev)
    /\ Unwrap(c.prev).opts = OptBase
    /\ c.opts = Some([OptBase EXCEPT !.model_id = None])
    /\ c.didStop /\ c.didSpawn
    /\ Unwrap(c.res).ok /\ Unwrap(c.res).running
    /\ IsSome(mgr.child) /\ mgr.child # c.seen /\ alive = {Unwrap(mgr.child)}

\* C4: the reuse decision is the conjunction of: same model identity, same
\* compute mode, same backend, same GPU-layer count if the requested mode is
\* hybrid, same CUDA version if the requested backend is cuda, each against
\* the supervisor's record.  A reused request stops and spawns nothing; a
\* request that is not reused has stopped the server before it spawns.
C4_ReuseDecision ==
    \A t \in Threads :
        LET c == th[t]
            req == Req(t)
            equal ==
                /\ IsSome(mgr.model_path)
                /\ model_id_from_path(Unwrap(mgr.model_path)) = Some(req.model_id)
                /\ UnwrapOr(mgr.compute_mode, "cpu") = req.compute_mode
                /\ UnwrapOr(mgr.gpu_backend, "vulkan") = req.gpu_backend
                /\ (req.compute_mode = "hybrid"
                        => UnwrapOr(mgr.gpu_layers, 0) = req.gpu_layers)
                /\ (req.gpu_backend = "cuda"
                        => UnwrapOr(mgr.cuda_version, "12.4") = req.cuda_version)
        IN  /\ c.pc = "er_decided" => c.reuse = Some(equal)
            /\ c.reuse = Some(TRUE) => (~c.didStop /\ ~c.didSpawn)
            /\ (c.reuse = Some(FALSE) /\ c.didSpawn) => c.didStop

\* a request in gpu mode that differs from the running configuration in the
\* layer count only has been reused
C4_Witness ==
    LET c == th[1] IN
    /\ c.pc = "done" /\ c.kind = "ensure" /\ IsSome(c.prev)
    /\ Unwrap(c.prev).opts = [OptBase EXCEPT !.compute_mode = Some("gpu")]
    /\ c.opts = Some([OptBase EXCEPT !.compute_mode = Some("gpu"),
                                     !.gpu_layers = Some(16)])
    /\ c.reuse = Some(TRUE) /\ ~c.didSpawn
    /\ Unwrap(c.res).ok /\ Unwrap(c.res).running

\* C5: start and stop are serialized: once every call has returned, the
\* supervisor is in a state a serial order leaves, so a tracked child never
\* comes with a cleared port, model path or compute configuration.
C5_StartStopSerialized ==
    (\A t \in Threads : th[t].pc = "idle") =>
        (IsSome(mgr.child) =>
            /\ IsSome(mgr.port) /\ IsSome(mgr.model_path)
            /\ IsSome(mgr.compute_mode) /\ IsSome(mgr.gpu_backend)
            /\ IsSome(mgr.gpu_layers) /\ IsSome(mgr.cuda_version))

\* C6: after the stop of the window teardown has run, following any calls
\* (overlapping ones included), no process the supervisor spawned is alive.
C6_NoServerAfterTeardown == destroyed => alive = {}

\* C7: stop never terminates a process the supervisor did not spawn.
C7_StopKillsOwnServerOnly == ~foreignKilled

\* C8: when ensure_running returns the start error because the port never
\* opened, the supervisor is Stopped: no child, port, model path or
\* configuration is recorded, so that a status query reports running = false.
C8_StartErrorLeavesStopped ==
    \A t \in Threads :
        LET c == th[t] IN
        (c.pc = "done" /\ c.kind = "ensure" /\ c.res = Some(ErrResult(StartFailed)))
            => (mgr = NewManager /\ ~IsRunningValue(mgr, alive))

\* C9: auto_start attempts the (candidate, tier) pairs in one fixed order:
\* the candidates in the order metal, cuda, vulkan, cpu (one candidate when a
\* compute preference is given), and for each candidate the tiers from its
\* start tier down to 0.  The attempts made so far are a prefix of that list,
\* only the last attempt can have succeeded, a success ends the call, the
\* terminal failure is returned only after the whole list failed, and the
\* number of attempts is at most the sum over candidates of start tier + 1.
C9_AutoStartSearch ==
    \A t \in Threads :
        th[t].kind = "auto" =>
        LET c == th[t]
            a == Unwrap(c.auto).aopts
            pref == normalize_preferred_compute(a.preferred_compute)
            gpu == is_gpu_worth_using(hw.gpu_name, hw.vram, hw.is_apple_silicon)
            Precedence == << << "gpu", "metal" >>, << "gpu", "cuda" >>,
                             << "hybrid", "vulkan" >>, << "cpu", "none" >> >>
            Available(k) == CASE k = 1 -> hw.has_metal /\ gpu
                              [] k = 2 -> hw.has_cuda /\ gpu
                              [] k = 3 -> hw.has_vulkan /\ gpu
                              [] OTHER -> TRUE
            Ranks == { k \in 1..4 : Available(k) }
            RankBefore(k) == Cardinality({ j \in Ranks : j < k })
            cands == Unwrap(c.auto).cands
            Start(i) == StartTier(hw, parse_preferred_tier(a.preferred_tier),
                                  cands[i][1])
            Before(i) == LET RECURSIVE Sum(_)
                             Sum(j) == IF j = 0 THEN 0 ELSE Sum(j - 1) + Start(j) + 1
                         IN  Sum(i - 1)
            Total == Before(Len(cands) + 1)
            n == Len(c.att)
        IN  /\ IF IsSome(pref)
               THEN Len(cands) = 1 /\ cands[1][1] = Unwrap(pref)
               ELSE /\ Len(cands) = Cardinality(Ranks)
                    /\ \A k \in Ranks : cands[RankBefore(k) + 1] = Precedence[k]
            /\ \A i \in 1..Len(cands) : Start(i) \in 0..TierMax
            /\ n <= Total
            /\ \A k \in 1..n :
                 \E i \in 1..Len(cands) :
                    /\ k \in (Before(i) + 1)..(Before(i) + Start(i) + 1)
                    /\ c.att[k].mode = cands[i][1]
                    /\ c.att[k].backend = cands[i][2]
                    /\ c.att[k].tier = Start(i) - (k - Before(i) - 1)
            /\ \A k \in 1..n : c.att[k].ok => (k = n /\ c.pc = "done")
            /\ c.pc = "done" =>
                 \/ n > 0 /\ c.att[n].ok /\ Unwrap(c.res).ok
                 \/ /\ c.res = Some(ErrResult(AutoStartFailed))
                    /\ n = Total /\ \A k \in 1..n : ~c.att[k].ok

\* on the machine with CUDA and Vulkan and no preference, auto_start went
\* through all tiers of the first candidate and succeeded on the second
C9_Witness ==
    LET c == th[1] IN
    /\ c.pc = "done" /\ c.kind = "auto" /\ hw = ProfileCuda
    /\ Unwrap(c.auto).aopts = AutoOpt(None, None, None, None, None)
    /\ Len(c.att) > 2 /\ c.att[Len(c.att)].ok
    /\ c.att[1].backend = "cuda" /\ c.att[Len(c.att)].backend = "vulkan"
    /\ c.att[Len(c.att) - 1].tier = 0

\* C10: the destination file is created only by a mirror attempt that wrote
\* the full stream and whose byte count equals the declared content length
\* when one is declared; and a download that fails for a reason of the
\* mirrors (not a cancellation, not an error of the local file system) has
\* removed the .part file and has attempted every mirror of the ordered list.
C10_MirrorFallThrough ==
    LET d == dl[1] IN
    /\ (d.pc = "done" /\ Unwrap(d.res).ok) =>
           /\ dest = Some([cells |-> [p \in 1..d.written |-> d.ordered[d.i]],
                           complete |-> TRUE, open |-> {}])
           /\ IsSome(d.expected_len) => d.written = Unwrap(d.expected_len)
    /\ (d.pc = "done" /\ ~Unwrap(d.res).ok
            /\ Unwrap(d.res).why \notin {"cancelled", "io"}) =>
           /\ part = None
           /\ d.attempted = Len(d.ordered)

\* C11: a download_to_file call that leaves its stream loop after a cancel
\* request was made during the call returns the cancellation error, with no
\* .part file on disk and, the destination being absent before the call, no
\* destination file.
C11_CancelMidStreamLeavesNoFile ==
    LET d == dl[1] IN
    (d.pc = "done" /\ d.creq /\ Unwrap(d.res).at = "stream") =>
        /\ Unwrap(d.res) = [ok |-> FALSE, why |-> "cancelled", at |-> "stream"]
        /\ part = None
        /\ d.dest0 = None => dest = None

\* a download into an absent destination that had written a chunk when the
\* cancel request came has returned from the stream loop
C11_Witness ==
    LET d == dl[1] IN
    /\ d.pc = "done" /\ d.creq /\ d.dest0 = None /\ d.written >= 1
    /\ Unwrap(d.res).why = "cancelled" /\ Unwrap(d.res).at = "stream"

\* C12: a download that was under way when builtin_llm_cancel_download was
\* invoked returns the cancellation error, not another error and not success,
\* whatever the other commands that share the cancel flag do.
C12_CancelReturnsCancelled ==
    \A c \in Callers :
        (dl[c].pc = "done" /\ dl[c].creq) => Unwrap(dl[c].res).why = "cancelled"

\* C13: once the calls that download into one destination have returned, a
\* destination file that exists holds the bytes of one download that
\* succeeded: as many chunks as that call received, each of them the chunk
\* its mirror sent for that position.
C13_ConcurrentDownloadsKeepFileWhole ==
    ((\A c \in Callers : dl[c].pc \in {"idle", "done"}) /\ IsSome(dest)) =>
        \E c \in Callers :
            /\ dl[c].pc = "done" /\ Unwrap(dl[c].res).ok
            /\ Unwrap(dest).cells =
                   [p \in 1..dl[c].written |-> dl[c].ordered[dl[c].i]]

\* C19: the attempt order is the URLs whose probe answered, in the order of
\* their latency, followed by the URLs whose probe did not answer; no URL
\* that answered comes again among the fallbacks; and the attempts made are
\* a prefix of that order.
C19_MirrorAttemptOrder ==
    LET d == dl[1]
        n == Len(d.order)
    IN  (d.pc # "idle" /\ n > 0) =>
          /\ \A k \in 1..n : d.ordered[k] = d.urls[d.order[k]]
          /\ \A k \in (n + 1)..Len(d.ordered) :
                /\ \A j \in 1..n : d.ordered[k] # d.urls[d.order[j]]
                /\ \E j \in 1..Len(d.urls) : d.urls[j] = d.ordered[k]
          /\ d.tried = SubSeq(d.ordered, 1, Len(d.tried))

\* C20: when no probe answered, the list of attempts is the declared list,
\* empty and repeated entries included: the attempts made are a prefix of
\* it, and the download fails for want of a mirror only after all of it.
C20_AllProbesFailKeepsOrder ==
    LET d == dl[1] IN
    (d.pc # "idle" /\ d.order = << >>) =>
        /\ d.ordered = d.urls
        /\ d.tried = SubSeq(d.urls, 1, Len(d.tried))
        /\ d.pc = "send" => d.i = Len(d.tried) + 1
        /\ (d.pc = "done" /\ Unwrap(d.res).why = "all mirrors failed")
               => d.tried = d.urls

\* no probe answered for a list that begins with an empty entry: the empty
\* entry was attempted first, then the download succeeded from the second
C20_Witness ==
    LET d == dl[1] IN
    /\ d.pc = "done" /\ d.order = << >> /\ d.urls = << 0, 1 >>
    /\ d.tried = << 0, 1 >> /\ Unwrap(d.res).ok


\* C14: a runtime installation is never partially visible: the runtime is
\* reported as installed, by builtin_llm_runtime_status or by the return of
\* ensure_runtime_with_mode, only when no extraction or copy into its
\* directory is under way.
C14_InstallNeverPartiallyVisible ==
    \A c \in Callers :
        ( /\ dl[c].pc = "done"
          /\ dl[c].fn \in {"runtime", "runtime_status"}
          /\ Unwrap(dl[c].res).at = dl[c].fn
          /\ Unwrap(dl[c].res).ok )
        => \A o \in Callers : ~(dl[o].pc = "rt_extract" /\ dl[o].left # {})

\* C15: when the mode of the command does not allow downloads, no download
\* is started, neither for the runtime nor for the model: no URL is probed
\* and none is requested.
C15_NoDownloadWhenNotAllowed ==
    \A c \in Callers :
        ~dl[c].allow =>
            /\ dl[c].pc \notin {"for_url", "send", "create", "stream", "verify"}
            /\ dl[c].attempted = 0

\* C16: a call that obtains a model by download (ensure_model_with_mode) or
\* by import (builtin_llm_import_model) returns Ok only if the file it stored
\* begins with the magic, and otherwise returns an error and the file it
\* wrote is no longer there.
C16_ModelMagicChecked ==
    LET d == dl[1]
    IN  ( /\ d.pc = "done"
          /\ \/ d.fn = "model" /\ Unwrap(d.res).at = "model" /\ d.urls # << >>
             \/ d.fn = "import" )
        => IF Unwrap(d.res).ok THEN file_starts_with(d.stored)
           ELSE d.stored = None


\* C17: builtin_llm_delete_model called for the model the running server was
\* started with returns the precondition error: no file is deleted and the
\* server is not stopped.
C17_DeleteRunningModelRefused ==
    LET c == th[1]
    IN  ( /\ c.kind = "delete_model" /\ c.pc = "done"
          /\ IsSome(c.prev) /\ IsSome(c.seen)
          /\ c.seen = Unwrap(c.prev).child
          /\ Unwrap(c.opts).model_id = Unwrap(c.prev).opts.model_id )
        => /\ Unwrap(c.res) = Failure(CannotDeleteRunning)
           /\ ~c.didStop

\* C18: builtin_llm_delete_runtime called while a server runs on that runtime
\* is rejected with an error and takes no partial action: the server is not
\* stopped and the command does not succeed.
C18_DeleteRunningRuntimeRefused ==
    LET c == th[1]
    IN  ( /\ c.kind = "delete_runtime" /\ c.pc = "done"
          /\ IsSome(c.prev) /\ IsSome(c.seen)
          /\ c.seen = Unwrap(c.prev).child
          /\ RequestRuntimeDir(Request(Unwrap(c.opts), hw.macos))
               = RequestRuntimeDir(Request(Unwrap(c.prev).opts, hw.macos)) )
        => /\ ~Unwrap(c.res).ok
           /\ ~c.didStop


\* C21: for every machine and every preference, the tier builtin_llm_recommend
\* returns and the tier every candidate of builtin_llm_auto_start starts from
\* lies in 0..5, does not exceed the tier of the RAM ladder and, in gpu and
\* hybrid mode on a machine whose VRAM is known, does not exceed the tier of
\* the VRAM ladder.
C21_TierWithinLadders ==
    LET c == th[1]
        WithinLadders(tier, compute_mode) ==
            /\ tier \in 0..TierMax
            /\ tier <= RamLadder(hw.total_mem_gb)
            /\ (compute_mode \in {"gpu", "hybrid"} /\ UnwrapOr(hw.vram, 0) > 0)
                  => tier <= VramLadder(VramGb(hw.vram))
    IN  (c.kind = "recommend" /\ c.pc = "done") =>
            LET o == Unwrap(c.opts)
                cands == ComputeCandidates(hw,
                             normalize_preferred_compute(o.preferred_compute))
            IN  /\ WithinLadders(Unwrap(c.res).tier,
                                 Unwrap(c.res).recommended_compute_mode)
                /\ \A k \in 1..Len(cands) :
                     WithinLadders(StartTier(hw, parse_preferred_tier(o.preferred_tier),
                                             cands[k][1]),
                                   cands[k][1])

\* C22: the CPU-core ladder is applied in cpu mode only: in gpu and hybrid
\* mode, with no preferred tier, the recommended tier is the same on machines
\* that differ in the number of cores only.
C22_CoresOnlyInCpuMode ==
    LET c == th[1]
    IN  ( /\ c.kind = "recommend" /\ c.pc = "done"
          /\ parse_preferred_tier(Unwrap(c.opts).preferred_tier) = None
          /\ Unwrap(c.res).recommended_compute_mode \in {"gpu", "hybrid"} )
        => \A cores \in CoreCounts :
              RecommendedTier([hw EXCEPT !.cpu_cores = cores], None,
                              Unwrap(c.res).recommended_compute_mode)
                = Unwrap(c.res).tier


\* C23: the server launched by ensure_running_impl, called directly or by
\* auto_start, gets --n-gpu-layers 999 in gpu mode, 0 in cpu mode and in
\* hybrid mode a count from 0 up to the cap of the VRAM ladder: 0 below 4 GB,
\* 8 below 6 GB, 16 below 8 GB, no cap from 8 GB.
C23_GpuLayersFlag ==
    \A t \in Threads :
        th[t].pc = "er_set_child" =>
            LET req == Req(t)
                gb == VramGb(hw.vram)
                cap == IF gb < 4 THEN 0 ELSE IF gb < 6 THEN 8
                       ELSE IF gb < 8 THEN 16 ELSE AllLayers
            IN  /\ req.compute_mode = "gpu" => n_gpu_layers(req) = AllLayers
                /\ req.compute_mode = "cpu" => n_gpu_layers(req) = 0
                /\ req.compute_mode = "hybrid" =>
                      n_gpu_layers(req) >= 0 /\ n_gpu_layers(req) <= cap


\* C24: with no compute preference recommend returns the first of (gpu,
\* metal), (gpu, cuda), (hybrid, vulkan) whose capability flag is set while
\* the GPU is worth using, and (cpu, none) when none qualifies; the candidate
\* list of auto_start is the qualifying ones in that order, then (cpu, none).
C24_ComputePrecedence ==
    LET useful == is_gpu_worth_using(hw.gpu_name, hw.vram, hw.is_apple_silicon)
        precedence ==
            << << "gpu", "metal" >>, << "gpu", "cuda" >>, << "hybrid", "vulkan" >> >>
        flag == << hw.has_metal, hw.has_cuda, hw.has_vulkan >>
        qualifying == { i \in 1..3 : flag[i] /\ useful }
        candidates == ComputeCandidates(hw, None)
        n == Len(candidates)
    IN  /\ \A t \in Threads :
              (/\ th[t].pc = "done" /\ th[t].kind = "recommend"
               /\ normalize_preferred_compute(Unwrap(th[t].opts).preferred_compute)
                      = None) =>
                  LET res == Unwrap(th[t].res)
                      chosen == << res.recommended_compute_mode,
                                   res.recommended_gpu_backend >>
                  IN  IF qualifying = {} THEN chosen = << "cpu", "none" >>
                      ELSE \E i \in qualifying :
                              /\ chosen = precedence[i]
                              /\ \A j \in qualifying : i <= j
        /\ n = Cardinality(qualifying) + 1
        /\ candidates[n] = << "cpu", "none" >>
        /\ \A i \in qualifying : \E k \in 1..(n - 1) : candidates[k] = precedence[i]
        /\ \A k, l \in 1..(n - 1) :
              k < l => \E i, j \in qualifying :
                          i < j /\ candidates[k] = precedence[i]
                                /\ candidates[l] = precedence[j]

\* recommend without preference on a machine with CUDA and Vulkan and a GPU
\* worth using: (gpu, cuda) chosen, three candidates
C24_Witness ==
    /\ th[1].pc = "done" /\ th[1].kind = "recommend"
    /\ Unwrap(th[1].opts).preferred_compute = None
    /\ hw.has_cuda /\ hw.has_vulkan /\ ~hw.has_metal
    /\ is_gpu_worth_using(hw.gpu_name, hw.vram, hw.is_apple_silicon)
    /\ Unwrap(th[1].res).recommended_compute_mode = "gpu"
    /\ Unwrap(th[1].res).recommended_gpu_backend = "cuda"
    /\ Len(ComputeCandidates(hw, None)) = 3


\* C25: the tier a benchmark returns, for every measured tokens per second,
\* RAM size, compute mode and VRAM size, is in 0..5, is not above the tier of
\* the RAM ladder nor, in gpu and hybrid mode with the VRAM size known, above
\* the cap of the VRAM, and a higher tokens per second never gives a lower
\* tier.
C25_BenchmarkTierCapped ==
    \A t \in Threads :
        (th[t].pc = "done" /\ th[t].kind = "benchmark" /\ Unwrap(th[t].res).ok) =>
            LET res == Unwrap(th[t].res)
                tier == res.recommended_tier
                compute_mode == normalize_compute_mode(Unwrap(th[t].opts).compute_mode)
                gb == VramGb(hw.vram)
                vram_cap == IF gb < 4 THEN 0 ELSE IF gb < 6 THEN 1
                            ELSE IF gb < 10 THEN 2 ELSE IF gb < 12 THEN 3
                            ELSE IF gb < 24 THEN 4 ELSE 5
            IN  /\ tier \in 0..TierMax
                /\ tier <= RamLadder(hw.total_mem_gb)
                /\ (compute_mode \in {"gpu", "hybrid"} /\ IsSome(hw.vram)
                       /\ Unwrap(hw.vram) > 0) => tier <= vram_cap
                /\ \A tps \in TpsValues :
                      /\ tps >= res.tokens_per_second =>
                            tier_from_benchmark(tps, hw.total_mem_gb,
                                                compute_mode, hw.vram) >= tier
                      /\ tps <= res.tokens_per_second =>
                            tier_from_benchmark(tps, hw.total_mem_gb,
                                                compute_mode, hw.vram) <= tier

\* a fast benchmark in gpu mode on a machine whose RAM allows tier 4 and whose
\* 8 GB of VRAM allow tier 2
C25_Witness ==
    /\ th[1].pc = "done" /\ th[1].kind = "benchmark"
    /\ Unwrap(th[1].opts).compute_mode = Some("gpu")
    /\ hw.total_mem_gb = 32 /\ hw.vram = Some(8 * MibPerGib)
    /\ Unwrap(th[1].res).ok
    /\ Unwrap(th[1].res).tokens_per_second = 1000
    /\ Unwrap(th[1].res).recommended_tier = 2


\* C26: sanitize_model_id is total: for every input, absent, empty, all
\* whitespace, longer than 80 characters or with characters outside the
\* allowed set, the id has at least one and at most 80 characters, each an
\* ASCII letter or digit or one of '_', '-', '.'.
C26_SanitizeTotal ==
    \A t \in Threads :
        (/\ th[t].pc = "done" /\ th[t].kind = "delete_model"
         /\ "model_id" \in DOMAIN Unwrap(th[t].res)) =>
            LET id == Unwrap(th[t].res).model_id
            IN  /\ Len(id) >= 1 /\ Len(id) <= 80
                /\ \A i \in 1..Len(id) : id[i] \in AsciiAlnum \cup { "_", "-", "." }

\* an id longer than 80 characters with characters outside the allowed set,
\* cut to 80 characters
C26_Witness ==
    /\ th[1].pc = "done" /\ th[1].kind = "delete_model"
    /\ "model_id" \in DOMAIN Unwrap(th[1].res)
    /\ IsSome(Unwrap(th[1].opts).model_id)
    /\ LET raw == Unwrap(Unwrap(th[1].opts).model_id)
       IN  /\ Len(raw) > 80
           /\ \E i \in 1..Len(raw) : raw[i] = "/"
    /\ Len(Unwrap(th[1].res).model_id) = 80


\* C27: with less than 8 GB of RAM tier_from_resources gives tier 0 for every
\* compute mode, every VRAM size and every number of cores; recommend, which
\* calls it when no tier is preferred, then returns tier 0.
C27_LowRamTierZero ==
    hw.total_mem_gb < 8 =>
        /\ \A mode \in { "cpu", "gpu", "hybrid" }, vram \in VramSizes,
              cores \in CoreCounts :
              tier_from_resources(hw.total_mem_gb, vram, mode, cores) = 0
        /\ \A t \in Threads :
              (/\ th[t].pc = "done" /\ th[t].kind = "recommend"
               /\ parse_preferred_tier(Unwrap(th[t].opts).preferred_tier) = None) =>
                  Unwrap(th[t].res).tier = 0

\* recommend with no preferred tier on a machine with 7 GB of RAM, 24 GB of
\* VRAM and 24 cores
C27_Witness ==
    /\ th[1].pc = "done" /\ th[1].kind = "recommend"
    /\ parse_preferred_tier(Unwrap(th[1].opts).preferred_tier) = None
    /\ hw.total_mem_gb = 7 /\ hw.vram = Some(24 * MibPerGib) /\ hw.cpu_cores = 24
    /\ Unwrap(th[1].res).recommended_compute_mode = "gpu"
    /\ Unwrap(th[1].res).tier = 0


\* C28: on a machine with a GPU worth using and from 6 GB up to, not
\* including, 10 GB of VRAM (8 GB among them), recommend in gpu mode returns
\* tier 2 whenever the RAM ladder allows tier 2 or more, also when the RAM
\* alone allows tier 4, and a preferred tier, if any, is 2 or more.
C28_EightGbVramTierTwo ==
    \A t \in Threads :
        (/\ th[t].pc = "done" /\ th[t].kind = "recommend"
         /\ Unwrap(th[t].res).recommended_compute_mode = "gpu"
         /\ is_gpu_worth_using(hw.gpu_name, hw.vram, hw.is_apple_silicon)
         /\ IsSome(hw.vram)
         /\ Unwrap(hw.vram) >= 6 * MibPerGib /\ Unwrap(hw.vram) < 10 * MibPerGib
         /\ hw.total_mem_gb >= 12
         /\ LET preferred_tier ==
                    parse_preferred_tier(Unwrap(th[t].opts).preferred_tier)
            IN  IsSome(preferred_tier) => Unwrap(preferred_tier) >= 2) =>
            /\ Unwrap(th[t].res).tier = 2
            /\ Unwrap(th[t].res).recommended_model_id = Id4b

\* recommend with no preference on a machine with CUDA, 8 GB of VRAM and
\* 32 GB of RAM, whose RAM ladder gives tier 4
C28_Witness ==
    /\ th[1].pc = "done" /\ th[1].kind = "recommend"
    /\ Unwrap(th[1].opts).preferred_tier = None
    /\ Unwrap(th[1].opts).preferred_compute = None
    /\ hw.has_cuda /\ hw.vram = Some(8 * MibPerGib) /\ hw.total_mem_gb = 32
    /\ hw.gpu_name = Some({})
    /\ Unwrap(th[1].res).recommended_compute_mode = "gpu"
    /\ Unwrap(th[1].res).tier = 2


\* C29: runtime_dir gives runtime/cpu in cpu mode for every backend and CUDA
\* version; in gpu and hybrid mode runtime/cuda-<version> for the backend
\* cuda, so that the versions 13.1 and 12.4 have different directories,
\* runtime/metal for metal and runtime/vulkan for every other backend.
C29_RuntimeDir ==
    LET cuda == << "c", "u", "d", "a" >>
        metal == << "m", "e", "t", "a", "l" >>
        backends == { cuda, metal, << "v", "u", "l", "k", "a", "n" >>,
                      << "n", "o", "n", "e" >>, << "o", "p", "e", "n", "c", "l" >>,
                      << >> }
        versions == { "12.4", "13.1" }
    IN  /\ \A b \in backends, v \in versions :
              /\ runtime_dir("cpu", b, v) = << "cpu" >>
              /\ \A mode \in { "gpu", "hybrid" } :
                    runtime_dir(mode, b, v) =
                        IF b = cuda THEN << "cuda-", v >>
                        ELSE IF b = metal THEN << "metal" >>
                        ELSE << "vulkan" >>
        /\ runtime_dir("gpu", cuda, "13.1") # runtime_dir("gpu", cuda, "12.4")
        /\ \A t \in Threads :
              (/\ th[t].pc = "done" /\ th[t].kind = "benchmark"
               /\ "dir" \in DOMAIN Unwrap(th[t].res)) =>
                  LET o == Unwrap(th[t].opts)
                      dir == Unwrap(th[t].res).dir
                      gpu == o.compute_mode \in { Some("gpu"), Some("hybrid") }
                      wants_cuda == o.gpu_backend \in { Some("cuda"), Some("CUDA") }
                      wants_metal ==
                          \/ o.gpu_backend \in { Some("metal"), Some("Metal") }
                          \/ ~wants_cuda /\ hw.macos
                  IN  dir = IF ~gpu THEN << "cpu" >>
                            ELSE IF wants_cuda
                            THEN << "cuda-", IF o.cuda_version = Some("13.1")
                                             THEN "13.1" ELSE "12.4" >>
                            ELSE IF wants_metal THEN << "metal" >>
                            ELSE << "vulkan" >>

\* a benchmark in cpu mode asked with the backend cuda and the version 13.1:
\* llama-bench is looked for in runtime/cpu
C29_Witness ==
    /\ th[1].pc = "done" /\ th[1].kind = "benchmark"
    /\ Unwrap(th[1].opts).compute_mode = Some("cpu")
    /\ Unwrap(th[1].opts).gpu_backend = Some("cuda")
    /\ Unwrap(th[1].opts).cuda_version = Some("13.1")
    /\ "dir" \in DOMAIN Unwrap(th[1].res)
    /\ Unwrap(th[1].res).dir = << "cpu" >>


\* C30: in a sequential run a stop that finds no tracked child and no
\* recorded port kills no process; when any stop() ends, child, port, model
\* path, compute mode, backend, GPU layers and CUDA version are all cleared,
\* and they stay cleared until builtin_llm_stop or the window teardown has
\* returned, so a stop after a stop changes nothing.
C30_StopClearsEverything ==
    /\ [](\A t \in Threads :
            (/\ th[t].kind \in { "stop", "destroy" } /\ th[t].didStop
             /\ th[t].pc \notin { "stop_clr_port", "stop_clr_path",
                                  "stop_clr_compute", "stop_clr_backend",
                                  "stop_clr_layers", "stop_clr_cuda" })
                => mgr = NewManager)
    /\ [][\A t \in Threads :
            /\ (th[t].pc = "stop_clr_cuda" /\ th'[t].pc # "stop_clr_cuda")
                  => mgr' = NewManager
            /\ (/\ th[t].pc = "stop_take_child" /\ th'[t].pc = "stop_clr_port"
                /\ mgr.child = None /\ th[t].ptc = None)
                  => /\ UNCHANGED << alive, listener, procPort, foreign, foreignKilled >>
                     /\ (mgr = NewManager => mgr' = NewManager)]_vars

\* builtin_llm_stop has returned on a supervisor that never spawned a server
C30_Witness ==
    /\ th[1].pc = "done" /\ th[1].kind = "stop" /\ th[1].didStop
    /\ nextPid = 1 /\ alive = {}
    /\ mgr = NewManager


\* C31: a status that reports running = true carries the base URL of the port
\* allocated for the tracked server, and a status that reports running =
\* false carries no base URL and no running model id.  (port stands for
\* base_url, which is "http://127.0.0.1:" followed by the port.)
C31_StatusBaseUrl ==
    \A t \in Threads :
        (/\ th[t].pc = "done"
         /\ th[t].kind \in { "status", "stop", "ensure", "auto", "destroy" }
         /\ Unwrap(th[t].res).ok) =>
            LET res == Unwrap(th[t].res)
            IN  /\ res.running =>
                      /\ IsSome(res.port)
                      /\ IsSome(mgr.child) => procPort[Unwrap(mgr.child)] = res.port
                /\ ~res.running => (res.port = None /\ res.running_model_id = None)


\* C32: ensure_model and ensure_runtime called when the model file, or the
\* server of the runtime, is already there return at once with that path:
\* no download and no copy is started and no file changes, at the first call
\* and at every later one.
C32_PresentIsReturned ==
    [][\A c \in Callers :
         /\ (dl[c].pc = "idle" /\ dl'[c].fn = "model" /\ IsSome(dest)) =>
               /\ dl'[c].pc = "done" /\ Unwrap(dl'[c].res).ok
               /\ dl'[c].stored = dest
               /\ dest' = dest /\ part' = part /\ rt' = rt
         /\ (/\ dl[c].pc = "idle" /\ dl'[c].fn \in { "runtime", "cudart" }
             /\ find_llama_server(rt)) =>
               /\ dl'[c].pc = "done" /\ Unwrap(dl'[c].res).ok
               /\ dest' = dest /\ part' = part /\ rt' = rt]_vars


\* C33: no lock of the supervisor is held across an operation that blocks:
\* a step that holds the lock of a field (it reads or writes that field of
\* mgr) kills no process, waits for none, looks up no port owner and spawns
\* nothing; in particular the step of stop() that takes the child out of its
\* lock leaves the processes alone.
C33_NoLockAcrossBlocking ==
    [][/\ mgr' # mgr =>
            UNCHANGED << alive, listener, procPort, nextPid, foreign, foreignKilled >>
       /\ \A t \in Threads :
            (th[t].pc = "stop_take_child" /\ th'[t].pc = "stop_clr_port") =>
                UNCHANGED << alive, listener, foreign, foreignKilled >>]_vars


\* C34: the extraction of a zip archive writes nothing outside the
\* destination directory, whatever the names of the entries: an entry whose
\* name, backslashes replaced, starts with '/' or contains ".." is never
\* written, and when the extraction has returned Ok every other entry has
\* been written.
C34_ExtractionStaysInside ==
    \A c \in Callers :
        LET names == { ReplaceBackslash(dl[c].archive[i]) :
                         i \in 1..Len(dl[c].archive) }
            Escapes(p) ==
                \/ p.base # "dest"
                \/ \E i \in 1..Len(p.name), j \in 1..Len(p.name) :
                      /\ SubSeq(p.name, i, j) = << ".", "." >>
                      /\ (i = 1 \/ p.name[i - 1] = "/")
                      /\ (j = Len(p.name) \/ p.name[j + 1] = "/")
        IN  /\ \A p \in dl[c].wrote :
                  /\ ~Escapes(p)
                  /\ ~StartsWithSlash(p.name) /\ ~ContainsDotDot(p.name)
            /\ (/\ dl[c].pc = "done" /\ dl[c].fn = "extract"
                /\ Unwrap(dl[c].res).ok) =>
                  \A name \in names :
                      (~StartsWithSlash(name) /\ ~ContainsDotDot(name)) =>
                          \E p \in dl[c].wrote : p.name = name


C36_IdPathRoundTrip ==
    \A t \in Threads :
        (/\ th[t].pc = "done" /\ th[t].kind = "ensure"
         /\ Unwrap(th[t].res).ok /\ Unwrap(th[t].res).running) =>
            LET id == sanitize_model_id(Unwrap(th[t].opts).model_id)
            IN  /\ model_id_from_path(model_file_path(id)) = Some(id)
                /\ Unwrap(th[t].res).running_model_id = Some(id)


\* C37: once a cancel request has aborted a download of an auto_start call,
\* that call starts no further download: it does not go on to download the
\* model of a lower tier or of another candidate.
C37_NoDownloadAfterCancel ==
    \A t \in Threads :
        (/\ th[t].kind = "auto"
         /\ \E k \in 1..Len(th[t].att) : th[t].att[k].cancelled) =>
            dl[1].pc \in { "idle", "done" }


\* C38: when auto_start returns 'auto start failed after trying fallbacks'
\* the supervisor is stopped: no process it spawned is alive, none is
\* tracked and the status that follows reports running = false.
C38_AutoStartFailureLeavesStopped ==
    \A t \in Threads :
        (/\ th[t].pc = "done" /\ th[t].kind = "auto"
         /\ Unwrap(th[t].res).err = AutoStartFailed) =>
            /\ alive = {}
            /\ mgr = NewManager
            /\ ~IsRunningValue(mgr, alive)


\* C39: an ensure_running whose request the running server does not satisfy
\* stops that server before it acquires anything; when the acquisition then
\* fails, ensure_running returns the error with the supervisor stopped and
\* every field cleared: the previous server is not restored and no process
\* is spawned.
C39_FailedAcquireLeavesStopped ==
    \A t \in Threads :
        (/\ th[t].kind = "ensure" /\ th[t].reuse = Some(FALSE)) =>
            /\ th[t].pc = "er_acquire" =>
                  (th[t].didStop /\ Unwrap(th[t].seen) \notin alive /\ mgr = NewManager)
            /\ (th[t].pc = "done" /\ Unwrap(th[t].res).err = "acquire failed") =>
                  /\ th[t].didStop /\ ~th[t].didSpawn
                  /\ mgr = NewManager
                  /\ alive = {}
                  /\ \A p \in Ports : listener[p] = None

\* the second ensure_running asked for another configuration than that of
\* the server of the first, that server was stopped and the acquisition
\* failed: nothing runs and nothing is tracked
C39_Witness ==
    /\ th[1].pc = "done" /\ th[1].kind = "ensure"
    /\ th[1].reuse = Some(FALSE) /\ th[1].seen = Some(1) /\ th[1].didStop
    /\ Unwrap(th[1].res).err = "acquire failed"
    /\ nextPid = 2 /\ alive = {} /\ mgr = NewManager

\* C40: recommend and auto_start agree.  For every probe and every
\* (preferred tier, preferred compute, CUDA version) the model id, compute
\* mode, GPU backend and CUDA version that builtin_llm_recommend returns are
\* those of the first (candidate, tier) pair builtin_llm_auto_start attempts.
C40_RecommendIsFirstAttempt ==
    (/\ th[2].pc = "done" /\ th[2].kind = "recommend"
     /\ th[1].kind = "auto" /\ Len(th[1].att) >= 1) =>
        LET r == Unwrap(th[2].res)
            first == th[1].att[1]
        IN  /\ first.mode = r.recommended_compute_mode
            /\ first.backend = r.recommended_gpu_backend
            /\ tier_to_model_id(first.tier) = r.recommended_model_id
            /\ first.tier = r.tier
            /\ (Len(th[1].att) = 1 /\ IsSome(th[1].opts)) =>
                  LET o == Unwrap(th[1].opts)
                  IN  /\ o.model_id = Some(r.recommended_model_id)
                      /\ o.compute_mode = Some(r.recommended_compute_mode)
                      /\ o.gpu_backend = Some(r.recommended_gpu_backend)
                      /\ o.cuda_version = Some(r.recommended_cuda_version)

\* on the 4 GB CUDA machine, tier 5 and gpu preferred with CUDA 13.1: the
\* recommendation is the capped tier on cuda, and it is what the first
\* attempt of auto_start asks for
C40_Witness ==
    /\ hw = ProfileCuda4Gb
    /\ th[2].pc = "done" /\ th[2].kind = "recommend"
    /\ Unwrap(th[2].opts).preferred_tier = Some(<< "5" >>)
    /\ Unwrap(th[2].opts).preferred_compute = Some("gpu")
    /\ Unwrap(th[2].res).recommended_gpu_backend = "cuda"
    /\ Unwrap(th[2].res).recommended_cuda_version = "13.1"
    /\ Unwrap(th[2].res).tier < 5
    /\ th[1].kind = "auto" /\ th[1].pc = "er_acquire" /\ Len(th[1].att) = 1
    /\ Unwrap(th[1].opts).model_id = Some(Unwrap(th[2].res).recommended_model_id)
    /\ Unwrap(th[1].opts).cuda_version = Some("13.1")


=============================================================================
